---- MODULE Spec2Model ----
(***************************************************************************)
(* CycleFold RecursiveSNARK (new / prove_step / verify), its PublicParams  *)
(* with the memoized digest, and the Pedersen commitment engine, over a    *)
(* small ring Z_P standing for both fields of the curve cycle and for the  *)
(* (additively written) commitment group.                                  *)
(***************************************************************************)
EXTENDS Integers, Sequences, FiniteSets, TLC

\* ---------------------------------------------------------------- bounds
\* order of the scalar ring and of the commitment group
P == 5
\* prove_step is not called once i has reached MaxSteps
MaxSteps == 3
\* initial inputs range over 0 .. MaxZ0
MaxZ0 == 2
\* digest() calls each concurrent session makes
MaxCalls == 2
\* concurrent sessions sharing one PublicParams
NThreads == 3
\* setup is called with labels 0 .. MaxLabel
MaxLabel == 1
\* setup is called with lengths 0 .. MaxKeySize
MaxKeySize == 3
\* bytes changed in a serialized key before it is parsed
MaxEdits == 2
\* commit is called with vectors of 0 .. MaxVecLen scalars
MaxVecLen == 2
\* the modulus of the scalar field the conversions are run on
FieldModulus == 257
\* bytes in the encoding of one field element
ReprBytes == 2
\* a NoirProgram has 0 .. MaxParams public parameters and 0 .. MaxParams + 1 return values
MaxParams == 2
\* witness values range over 0 .. MaxWitnessValue
MaxWitnessValue == 2
\* bits of a usize
UsizeBits == 4
\* a ROM holds 1 .. MaxRom opcodes
MaxRom == 3

\* ------------------------------------------------------------- constants
\* public IO of the augmented primary circuit: the two hashes
NUM_IO_PRIMARY == 2
\* public IO of the CycleFold circuit: one per point (3) and the scalar
NIO_CYCLE_FOLD == 4

None == "None"

\* ------------------------------------------------------- ring arithmetic
Fp == 0 .. (P - 1)

Mod(x) == ((x % P) + P) % P

\* the sum of s[lo .. hi], by halves
RECURSIVE SumRange(_, _, _)
SumRange(s, lo, hi) ==
  IF lo > hi THEN 0
  ELSE IF lo = hi THEN Mod(s[lo])
  ELSE LET mid == (lo + hi) \div 2
       IN  Mod(SumRange(s, lo, mid) + SumRange(s, mid + 1, hi))

SumSeq(s) == SumRange(s, 1, Len(s))

VAdd(a, b) == [k \in 1 .. Len(a) |-> Mod(a[k] + b[k])]

VScale(r, a) == [k \in 1 .. Len(a) |-> Mod(r * a[k])]

VSub(a, b) == [k \in 1 .. Len(a) |-> Mod(a[k] - b[k])]

Hadamard(a, b) == [k \in 1 .. Len(a) |-> Mod(a[k] * b[k])]

Zeros(n) == [k \in 1 .. n |-> 0]

Unit(n, j) == [k \in 1 .. n |-> IF k = j THEN 1 ELSE 0]

Dot(row, z) == SumSeq([k \in 1 .. Len(row) |-> Mod(row[k] * z[k])])

MatVec(M, z) == [k \in 1 .. Len(M) |-> Dot(M[k], z)]

RECURSIVE next_power_of_two(_)
next_power_of_two(n) == IF n <= 1 THEN 1 ELSE 2 * next_power_of_two((n + 1) \div 2)

Max(a, b) == IF a >= b THEN a ELSE b

\* ---------------------------------------------------- commitment engine
\* E::GE::from_label: the k-th generator derived from the label; never the identity
from_label(label, n) == [k \in 1 .. n |-> ((label + k) % (P - 1)) + 1]

\* a setup that does not round the length up
setup_exact(label, n) == from_label(label, n)

setup(label, n) == from_label(label, next_power_of_two(n))

vartime_multiscalar_mul(v, bases) == SumSeq([k \in 1 .. Len(v) |-> Mod(v[k] * bases[k])])

\* a commit against the last v.len() generators of the key
commit_last_generators(ck, v) ==
  IF Len(ck) >= Len(v)
  THEN vartime_multiscalar_mul(v, SubSeq(ck, Len(ck) - Len(v) + 1, Len(ck)))
  ELSE "abort"

\* a commit with a fixed blinding term, the first generator
commit_blinded(ck, v) ==
  IF Len(ck) >= Len(v)
  THEN Mod(vartime_multiscalar_mul(v, SubSeq(ck, 1, Len(v))) + ck[1])
  ELSE "abort"

\* "abort" stands for the failed assert!(ck.ck.len() >= v.len())
commit(ck, v) ==
  IF Len(ck) >= Len(v) THEN vartime_multiscalar_mul(v, SubSeq(ck, 1, Len(v))) ELSE "abort"

CommitmentAdd(a, b) == Mod(a + b)

CommitmentMul(a, r) == Mod(a * r)

\* GroupEncoding::to_bytes: the encoding of group element g is the byte string <<"pt", g>>
compress(c) == <<"pt", c>>

\* a decompress that takes every encoding for a point
decompress_lenient(cc) ==
  IF Len(cc) = 2 /\ cc[1] = "pt"
  THEN [ok |-> TRUE, comm |-> cc[2]]
  ELSE [ok |-> FALSE, err |-> "DecompressionError"]

\* GroupEncoding::from_bytes: only encodings of group elements decode
decompress(cc) ==
  IF Len(cc) = 2 /\ cc[1] = "pt" /\ cc[2] \in Fp
  THEN [ok |-> TRUE, comm |-> cc[2]]
  ELSE [ok |-> FALSE, err |-> "DecompressionError"]

\* ------------------------------------------------------------ random oracle
\* RO::new(constants, _), absorb of each element in order, squeeze: the k-th absorbed
\* element enters the sponge state with a weight that depends on its position
Absorb(acc, elems) ==
  Mod(acc + SumSeq([k \in 1 .. Len(elems) |-> Mod((elems[k] + 1) * ((k % (P - 1)) + 1))]))

RO(ro_consts, elems) == Absorb(ro_consts, elems)

\* gadgets::scalar_as_base: the same integer, reduced into the other field of the cycle
scalar_as_base(x) == Mod(x)

\* ------------------------------------------------------------------ R1CS
\* z = (W, u, X)
\* Augmented primary circuit around SquareCircuit.
\* W = (z_in, z_out, hash_primary, hash_cyclefold, d_primary, d_cyclefold), X = (X0, X1)
\*   z_in * z_in = z_out            the step circuit (x.square)
\*   hash_primary * 1 = X0          inputize
\*   hash_cyclefold * 1 = X1        inputize
\*   d_primary * 1 = 0              previous primary hash equals u.X[0]
\*   d_cyclefold * 1 = 0            previous CycleFold hash equals u.X[1]
r1cs_shape_primary ==
  LET n == 9
  IN  [num_cons |-> 5, num_vars |-> 6, num_io |-> NUM_IO_PRIMARY,
       A |-> <<Unit(n, 1), Unit(n, 3), Unit(n, 4), Unit(n, 5), Unit(n, 6)>>,
       B |-> <<Unit(n, 1), Unit(n, 7), Unit(n, 7), Unit(n, 7), Unit(n, 7)>>,
       C |-> <<Unit(n, 2), Unit(n, 8), Unit(n, 9), Zeros(n), Zeros(n)>>]

\* CycleFoldCircuit: W = (t), X = (commit_1, commit_2, result, r)
\*   commit_2 * r = t
\*   (commit_1 + t) * 1 = result
r1cs_shape_cyclefold ==
  LET n == 6
  IN  [num_cons |-> 2, num_vars |-> 1, num_io |-> NIO_CYCLE_FOLD,
       A |-> <<Unit(n, 4), VAdd(Unit(n, 3), Unit(n, 1))>>,
       B |-> <<Unit(n, 6), Unit(n, 2)>>,
       C |-> <<Unit(n, 1), Unit(n, 5)>>]

\* R1CSShape::multiply_vec: (Az, Bz, Cz)
multiply_vec(S, z) == [AZ |-> MatVec(S.A, z), BZ |-> MatVec(S.B, z), CZ |-> MatVec(S.C, z)]

\* the exact relation on the products m = (Az, Bz, Cz)
R1CS_holds(m) == Hadamard(m.AZ, m.BZ) = m.CZ

\* the relaxed relation on the products m = (Az, Bz, Cz)
RelaxedR1CS_holds(m, u, E) == Hadamard(m.AZ, m.BZ) = VAdd(VScale(u, m.CZ), E)

\* R1CSShape::is_sat: (Az) o (Bz) = Cz and comm_W commits to W
is_sat(S, ck, U, W) ==
  IF Len(W.W) # S.num_vars \/ Len(U.X) # S.num_io THEN "UnSat"
  ELSE IF /\ R1CS_holds(multiply_vec(S, W.W \o <<1>> \o U.X))
          /\ U.comm_W = commit(ck, W.W)
       THEN "Ok" ELSE "UnSat"

\* R1CSShape::is_sat_relaxed: (Az) o (Bz) = u * Cz + E, comm_W and comm_E commit to W and E
is_sat_relaxed(S, ck, U, W) ==
  IF Len(W.W) # S.num_vars \/ Len(U.X) # S.num_io \/ Len(W.E) # S.num_cons THEN "UnSat"
  ELSE IF /\ RelaxedR1CS_holds(multiply_vec(S, W.W \o <<U.u>> \o U.X), U.u, W.E)
          /\ U.comm_W = commit(ck, W.W)
          /\ U.comm_E = commit(ck, W.E)
       THEN "Ok" ELSE "UnSat"

\* RelaxedR1CSInstance::default / RelaxedR1CSWitness::default
RelaxedR1CSInstance_default(ck, S) ==
  [comm_W |-> 0, comm_E |-> 0, u |-> 0, X |-> Zeros(S.num_io)]

RelaxedR1CSWitness_default(S) == [W |-> Zeros(S.num_vars), E |-> Zeros(S.num_cons)]

\* AbsorbInROTrait for R1CSInstance and RelaxedR1CSInstance
absorb_r1cs(u) == <<u.comm_W>> \o u.X

absorb_primary_relaxed_r1cs(U) == <<U.comm_W, U.comm_E, U.u>> \o U.X

\* RelaxedR1CSInstance::absorb_in_ro
absorb_in_ro(U) == <<U.comm_W, U.comm_E, U.u>> \o U.X

\* ------------------------------------------------------------------ NIFS
\* the cross term from the products of the relaxed z1 (scalar u1) and the exact z2
cross_term(u1, m1, m2) ==
  VSub(VAdd(Hadamard(m1.AZ, m2.BZ), Hadamard(m2.AZ, m1.BZ)),
       VAdd(VScale(u1, m2.CZ), m1.CZ))

\* R1CSShape::commit_T: the cross term of (U1, W1) relaxed and (U2, W2) exact
commit_T(S, U1, W1, U2, W2) ==
  cross_term(U1.u, multiply_vec(S, W1.W \o <<U1.u>> \o U1.X),
                   multiply_vec(S, W2.W \o <<1>> \o U2.X))

\* the folding challenge: a function of the digest, both instances and comm_T only
nifs_challenge(ro_consts, pp_digest, U1, U2, comm_T) ==
  RO(ro_consts, <<pp_digest>> \o absorb_primary_relaxed_r1cs(U1) \o absorb_r1cs(U2) \o <<comm_T>>)

\* RelaxedR1CSInstance::fold
fold_instance(U1, U2, comm_T, r) ==
  [comm_W |-> CommitmentAdd(U1.comm_W, CommitmentMul(U2.comm_W, r)),
   comm_E |-> CommitmentAdd(U1.comm_E, CommitmentMul(comm_T, r)),
   u      |-> Mod(U1.u + r),
   X      |-> VAdd(U1.X, VScale(r, U2.X))]

\* RelaxedR1CSWitness::fold
fold_witness(W1, W2, T, r) ==
  [W |-> VAdd(W1.W, VScale(r, W2.W)), E |-> VAdd(W1.E, VScale(r, T))]

\* the folded pair under challenge r
NIFS_fold(U1, W1, U2, W2, T, comm_T, r) ==
  [nifs |-> [comm_T |-> compress(comm_T)],
   U    |-> fold_instance(U1, U2, comm_T, r),
   W    |-> fold_witness(W1, W2, T, r),
   r    |-> r]

\* commit to the cross term T and derive the challenge from public data
NIFS_prove_with_T(ck, ro_consts, pp_digest, U1, W1, U2, W2, T) ==
  NIFS_fold(U1, W1, U2, W2, T, commit(ck, T),
            nifs_challenge(ro_consts, pp_digest, U1, U2, commit(ck, T)))

\* PrimaryNIFS::prove and CycleFoldNIFS::prove: the same algorithm over either shape
NIFS_prove(ck, ro_consts, pp_digest, S, U1, W1, U2, W2) ==
  NIFS_prove_with_T(ck, ro_consts, pp_digest, U1, W1, U2, W2, commit_T(S, U1, W1, U2, W2))

\* NIFS verification as the augmented circuit replays it: instances only
NIFS_verify(ro_consts, pp_digest, U1, U2, comm_T) ==
  fold_instance(U1, U2, comm_T, nifs_challenge(ro_consts, pp_digest, U1, U2, comm_T))

\* ----------------------------------------------------------- step circuit
\* SquareCircuit: arity 1, z_out = z_in^2
StepCircuit_arity(c) == 1

StepCircuit_synthesize(c, z) == <<Mod(z[1] * z[1])>>

\* ----------------------------------------------------------- PublicParams
\* ck_hint values offered to setup: the size a final compressing SNARK asks for
CkHints == {0, 9}

\* ShapeCS::r1cs_shape_and_key: a key long enough for W, for E/T and for the hint
r1cs_shape_and_key(S, ck_hint) == setup(0, Max(Max(S.num_cons, S.num_vars), ck_hint))

PublicParams_setup(c_primary, ck_hint_primary, ck_hint_cyclefold) ==
  [F_arity_primary     |-> StepCircuit_arity(c_primary),
   ro_consts_primary   |-> 1,
   ck_primary          |-> r1cs_shape_and_key(r1cs_shape_primary, ck_hint_primary),
   ro_consts_cyclefold |-> 1,
   ck_cyclefold        |-> r1cs_shape_and_key(r1cs_shape_cyclefold, ck_hint_cyclefold)]

\* DigestComputer::new(pp).digest(): a hash of every serialized field; the memo cell
\* itself is skipped by the serializer
DigestComputer_digest(p) ==
  Absorb(2, <<p.F_arity_primary, p.ro_consts_primary, Len(p.ck_primary)>>
            \o p.ck_primary
            \o <<r1cs_shape_primary.num_cons, r1cs_shape_primary.num_vars,
                 p.ro_consts_cyclefold, Len(p.ck_cyclefold)>>
            \o p.ck_cyclefold
            \o <<r1cs_shape_cyclefold.num_cons, r1cs_shape_cyclefold.num_vars>>)

\* OnceCell::new()
OnceCell_new == [set |-> FALSE, val |-> 0]

\* a get_or_try_init that hands the stored value out of the cell, leaving it empty
get_or_try_init_take(cell, v) ==
  IF cell.set THEN [val |-> cell.val, cell |-> [set |-> FALSE, val |-> 0]]
  ELSE [val |-> v, cell |-> [set |-> TRUE, val |-> v]]

\* a get_or_try_init that marks the cell set without moving the value into it
get_or_try_init_unstored(cell, v) ==
  IF cell.set THEN [val |-> cell.val, cell |-> cell]
  ELSE [val |-> v, cell |-> [set |-> TRUE, val |-> 0]]

\* OnceCell::get_or_try_init: the stored value when set, else compute and store
get_or_try_init(cell, v) ==
  IF cell.set THEN [val |-> cell.val, cell |-> cell]
  ELSE [val |-> v, cell |-> [set |-> TRUE, val |-> v]]

\* PublicParams::digest
digest(p, cell) == get_or_try_init(cell, DigestComputer_digest(p))

\* ------------------------------------------------------- augmented circuit
\* CycleFoldCircuit::synthesize + r1cs_instance_and_witness: result = commit_1 + r * commit_2
CycleFoldCircuit_instance_and_witness(ck, commit_1, commit_2, r) ==
  LET t == CommitmentMul(commit_2, r)
      W == <<t>>
  IN  [u |-> [comm_W |-> commit(ck, W), X |-> <<commit_1, commit_2, CommitmentAdd(commit_1, t), r>>],
       w |-> [W |-> W]]

FoldingData_new(U, u, T) == [U |-> U, u |-> u, T |-> T]

\* the running primary instance the augmented circuit outputs a hash of
AugmentedCircuit_U_primary(p, in) ==
  IF in.i = 0 THEN RelaxedR1CSInstance_default(p.ck_primary, r1cs_shape_primary)
  ELSE [NIFS_verify(p.ro_consts_primary, in.pp_digest, in.data_p.U, in.data_p.u, in.data_p.T)
          EXCEPT !.comm_W = in.W_new, !.comm_E = in.E_new]

\* the running CycleFold instance the augmented circuit outputs a hash of
AugmentedCircuit_U_cyclefold(p, in) ==
  IF in.i = 0 THEN RelaxedR1CSInstance_default(p.ck_cyclefold, r1cs_shape_cyclefold)
  ELSE NIFS_verify(p.ro_consts_cyclefold, in.pp_digest,
                   NIFS_verify(p.ro_consts_cyclefold, in.pp_digest,
                               in.data_c_E.U, in.data_c_E.u, in.data_c_E.T),
                   in.data_c_W.u, in.data_c_W.T)

\* the assignment: W = (z_in, z_out, h_p, h_c, d_p, d_c), X = (h_p, h_c)
AugmentedCircuit_assign(p, z_in, z_out, h_p, h_c, d_p, d_c) ==
  [zi |-> z_out,
   u  |-> [comm_W |-> commit(p.ck_primary, <<z_in[1], z_out[1], h_p, h_c, d_p, d_c>>),
           X      |-> <<h_p, h_c>>],
   w  |-> [W |-> <<z_in[1], z_out[1], h_p, h_c, d_p, d_c>>]]

\* the two output hashes, for step i + 1, of the instances U_p and U_c
AugmentedCircuit_hash(p, in, z_in, z_out, U_p, U_c, d_p, d_c) ==
  AugmentedCircuit_assign(p, z_in, z_out,
    RO(p.ro_consts_primary,
       <<in.pp_digest, Mod(in.i + 1)>> \o in.z0 \o z_out \o absorb_primary_relaxed_r1cs(U_p)),
    RO(p.ro_consts_cyclefold,
       <<in.pp_digest, Mod(in.i + 1)>> \o absorb_in_ro(U_c)),
    d_p, d_c)

\* AugmentedCircuit::synthesize + r1cs_instance_and_witness.
\* Base case (i = 0): the running instances are the default ones and z_in = z0.
\* Otherwise: replay both hashes of the previous step against u.X (d_p, d_c), fold the
\* primary instance (with E_new, W_new as the folded commitments) and the two CycleFold
\* instances, run the step circuit on zi, and output the two hashes for step i + 1.
AugmentedCircuit_synthesize(p, in, c_primary) ==
  IF in.i = 0
  THEN AugmentedCircuit_hash(p, in, in.z0, StepCircuit_synthesize(c_primary, in.z0),
                             AugmentedCircuit_U_primary(p, in),
                             AugmentedCircuit_U_cyclefold(p, in), 0, 0)
  ELSE AugmentedCircuit_hash(p, in, in.zi, StepCircuit_synthesize(c_primary, in.zi),
         AugmentedCircuit_U_primary(p, in),
         AugmentedCircuit_U_cyclefold(p, in),
         Mod(RO(p.ro_consts_primary,
                <<in.pp_digest, in.i>> \o in.z0 \o in.zi
                  \o absorb_primary_relaxed_r1cs(in.data_p.U))
             - in.data_p.u.X[1]),
         Mod(RO(p.ro_consts_cyclefold,
                <<in.pp_digest, in.i>> \o absorb_in_ro(in.data_c_E.U))
             - in.data_p.u.X[2]))

\* ---------------------------------------------------------- RecursiveSNARK
Ok(v) == [kind |-> "Ok", err |-> "", val |-> v]

Err(e) == [kind |-> "Err", err |-> e, val |-> <<>>]

\* an out-of-bounds index aborts the call: no Result is returned
Panic == [kind |-> "Panic", err |-> "index out of bounds", val |-> <<>>]

R1CSResult_default(n) == [AZ |-> Zeros(n), BZ |-> Zeros(n), CZ |-> Zeros(n)]

ResourceBuffer_new(S) ==
  [l_w |-> None, l_u |-> None, ABC_Z_1 |-> R1CSResult_default(S.num_cons),
   ABC_Z_2 |-> R1CSResult_default(S.num_cons), T |-> Zeros(S.num_cons)]

\* callee results new can be handed: the first one that is an Err ends the call
NewFails == {"none", "synthesize", "instance_and_witness", "assignment"}

\* the value held before any RecursiveSNARK was built (never read while made = FALSE)
NoSNARK ==
  [z0_primary    |-> <<>>,
   r_W_primary   |-> RelaxedR1CSWitness_default(r1cs_shape_primary),
   r_U_primary   |-> RelaxedR1CSInstance_default(<<>>, r1cs_shape_primary),
   l_w_primary   |-> [W |-> <<>>],
   l_u_primary   |-> [comm_W |-> 0, X |-> <<>>],
   r_W_cyclefold |-> RelaxedR1CSWitness_default(r1cs_shape_cyclefold),
   r_U_cyclefold |-> RelaxedR1CSInstance_default(<<>>, r1cs_shape_cyclefold),
   buffer_primary   |-> ResourceBuffer_new(r1cs_shape_primary),
   buffer_cyclefold |-> ResourceBuffer_new(r1cs_shape_cyclefold),
   i             |-> 0,
   zi_primary    |-> <<>>]

\* the inputs of the augmented circuit in the base case
AugmentedCircuitInputs_base(pp_digest, z0_primary) ==
  [pp_digest |-> pp_digest, i |-> 0, z0 |-> z0_primary, zi |-> None,
   data_p |-> None, data_c_E |-> None, data_c_W |-> None, E_new |-> None, W_new |-> None]

\* the RecursiveSNARK new returns, from the synthesized first instance
new_value(p, z0_primary, out) ==
  [z0_primary    |-> z0_primary,
   r_W_primary   |-> RelaxedR1CSWitness_default(r1cs_shape_primary),
   r_U_primary   |-> RelaxedR1CSInstance_default(p.ck_primary, r1cs_shape_primary),
   l_w_primary   |-> out.w,
   l_u_primary   |-> out.u,
   r_W_cyclefold |-> RelaxedR1CSWitness_default(r1cs_shape_cyclefold),
   r_U_cyclefold |-> RelaxedR1CSInstance_default(p.ck_cyclefold, r1cs_shape_cyclefold),
   buffer_primary   |-> ResourceBuffer_new(r1cs_shape_primary),
   buffer_cyclefold |-> ResourceBuffer_new(r1cs_shape_cyclefold),
   i             |-> 0,
   zi_primary    |-> out.zi]

\* new after the length check: d is what pp.digest() returned and left in the cell
new_synthesize(p, d, c_primary, z0_primary, fail) ==
  IF fail = "synthesize"
  THEN [res |-> Err("SynthesisError"), self |-> NoSNARK, cell |-> d.cell]
  ELSE IF fail = "instance_and_witness"
  THEN [res |-> Err("InvalidWitnessLength"), self |-> NoSNARK, cell |-> d.cell]
  ELSE IF fail = "assignment"
  THEN [res |-> Err("AssignmentMissing"), self |-> NoSNARK, cell |-> d.cell]
  ELSE [res  |-> Ok(<<>>),
        self |-> new_value(p, z0_primary,
                   AugmentedCircuit_synthesize(p,
                     AugmentedCircuitInputs_base(scalar_as_base(d.val), z0_primary),
                     c_primary)),
        cell |-> d.cell]

\* a new that asks for the digest first and checks the length of z0 after it
new_late_check(p, cell, c_primary, z0_primary, fail) ==
  IF Len(z0_primary) # p.F_arity_primary
  THEN [res |-> Err("InvalidInitialInputLength"), self |-> NoSNARK, cell |-> digest(p, cell).cell]
  ELSE new_synthesize(p, digest(p, cell), c_primary, z0_primary, fail)

\* RecursiveSNARK::new
new(p, cell, c_primary, z0_primary, fail) ==
  IF Len(z0_primary) # p.F_arity_primary
  THEN [res |-> Err("InvalidInitialInputLength"), self |-> NoSNARK, cell |-> cell]
  ELSE new_synthesize(p, digest(p, cell), c_primary, z0_primary, fail)

\* callee results prove_step can be handed, in the order the code reaches them
ProveFails ==
  <<"nifs_primary", "decompress_T", "cyclefold_E_instance", "nifs_cyclefold_E",
    "decompress_T_E", "cyclefold_W_instance", "nifs_cyclefold_W", "decompress_T_W",
    "synthesize", "primary_instance", "assignment">>

ProveFailSet == {"none"} \cup {ProveFails[k] : k \in 1 .. Len(ProveFails)}

\* the NovaError each failing callee of prove_step ends the call with
prove_step_error(fail) ==
  CASE fail = "nifs_primary"         -> "InvalidWitnessLength"
    [] fail = "decompress_T"         -> "DecompressionError"
    [] fail = "cyclefold_E_instance" -> "UnSat"
    [] fail = "nifs_cyclefold_E"     -> "InvalidWitnessLength"
    [] fail = "decompress_T_E"       -> "DecompressionError"
    [] fail = "cyclefold_W_instance" -> "UnSat"
    [] fail = "nifs_cyclefold_W"     -> "InvalidWitnessLength"
    [] fail = "decompress_T_W"       -> "DecompressionError"
    [] fail = "synthesize"           -> "SynthesisError"
    [] fail = "primary_instance"     -> "UnSat"
    [] fail = "assignment"           -> "AssignmentMissing"
    [] OTHER                         -> ""

\* an early return through `?`: nothing was assigned to self yet
prove_step_return_err(self, d, e) == [res |-> Err(e), self |-> self, cell |-> d.cell]

\* the assignments without the one to zi_primary
prove_step_assign_stale_zi(self, d, fail, nifs_p, nifs_W, out) ==
  IF fail = "assignment" THEN prove_step_return_err(self, d, prove_step_error(fail))
  ELSE [res  |-> Ok(<<>>),
        self |-> [self EXCEPT !.r_U_primary   = nifs_p.U,
                              !.r_W_primary   = nifs_p.W,
                              !.l_u_primary   = out.u,
                              !.l_w_primary   = out.w,
                              !.r_U_cyclefold = nifs_W.U,
                              !.r_W_cyclefold = nifs_W.W,
                              !.i             = self.i + 1],
        cell |-> d.cell]

\* the assignments without the one to r_W_cyclefold
prove_step_assign_stale_W(self, d, fail, nifs_p, nifs_W, out) ==
  IF fail = "assignment" THEN prove_step_return_err(self, d, prove_step_error(fail))
  ELSE [res  |-> Ok(<<>>),
        self |-> [self EXCEPT !.zi_primary    = out.zi,
                              !.r_U_primary   = nifs_p.U,
                              !.r_W_primary   = nifs_p.W,
                              !.l_u_primary   = out.u,
                              !.l_w_primary   = out.w,
                              !.r_U_cyclefold = nifs_W.U,
                              !.i             = self.i + 1],
        cell |-> d.cell]

\* prove_step: the assignments to self after the last fallible call
prove_step_assign(self, d, fail, nifs_p, nifs_W, out) ==
  IF fail = "assignment" THEN prove_step_return_err(self, d, prove_step_error(fail))
  ELSE [res  |-> Ok(<<>>),
        self |-> [self EXCEPT !.zi_primary    = out.zi,
                              !.r_U_primary   = nifs_p.U,
                              !.r_W_primary   = nifs_p.W,
                              !.l_u_primary   = out.u,
                              !.l_w_primary   = out.w,
                              !.r_U_cyclefold = nifs_W.U,
                              !.r_W_cyclefold = nifs_W.W,
                              !.i             = self.i + 1],
        cell |-> d.cell]

\* the CycleFold instance for (r_U_primary.comm_E, comm_T)
prove_step_cf_E(self, p, nifs_p) ==
  CycleFoldCircuit_instance_and_witness(p.ck_cyclefold, self.r_U_primary.comm_E,
                                        decompress(nifs_p.nifs.comm_T).comm, nifs_p.r)

\* the CycleFold instance for (r_U_primary.comm_W, l_u_primary.comm_W)
prove_step_cf_W(self, p, nifs_p) ==
  CycleFoldCircuit_instance_and_witness(p.ck_cyclefold, self.r_U_primary.comm_W,
                                        self.l_u_primary.comm_W, nifs_p.r)

\* the inputs of the augmented circuit for a folding step
prove_step_inputs(self, p, d, nifs_p, nifs_E, nifs_W) ==
  [pp_digest |-> scalar_as_base(d.val), i |-> Mod(self.i), z0 |-> self.z0_primary,
   zi        |-> self.zi_primary,
   data_p    |-> FoldingData_new(self.r_U_primary, self.l_u_primary,
                                 decompress(nifs_p.nifs.comm_T).comm),
   data_c_E  |-> FoldingData_new(self.r_U_cyclefold, prove_step_cf_E(self, p, nifs_p).u,
                                 decompress(nifs_E.nifs.comm_T).comm),
   data_c_W  |-> FoldingData_new(nifs_E.U, prove_step_cf_W(self, p, nifs_p).u,
                                 decompress(nifs_W.nifs.comm_T).comm),
   E_new     |-> CommitmentAdd(self.r_U_primary.comm_E,
                               CommitmentMul(decompress(nifs_p.nifs.comm_T).comm, nifs_p.r)),
   W_new     |-> CommitmentAdd(self.r_U_primary.comm_W,
                               CommitmentMul(self.l_u_primary.comm_W, nifs_p.r))]

\* a prove_step that stores the primary fold in self before the calls that can still fail
prove_step_synthesize_in_place(self, p, d, c_primary, fail, nifs_p, nifs_E, nifs_W) ==
  IF fail = "decompress_T_W" \/ ~decompress(nifs_W.nifs.comm_T).ok
  THEN prove_step_return_err([self EXCEPT !.r_U_primary = nifs_p.U, !.r_W_primary = nifs_p.W],
                             d, "DecompressionError")
  ELSE IF fail \in {"synthesize", "primary_instance"}
  THEN prove_step_return_err([self EXCEPT !.r_U_primary = nifs_p.U, !.r_W_primary = nifs_p.W],
                             d, prove_step_error(fail))
  ELSE prove_step_assign(self, d, fail, nifs_p, nifs_W,
         AugmentedCircuit_synthesize(p, prove_step_inputs(self, p, d, nifs_p, nifs_E, nifs_W),
                                     c_primary))

\* prove_step: decompress comm_T_W, synthesize the augmented circuit, derive (l_u, l_w)
prove_step_synthesize(self, p, d, c_primary, fail, nifs_p, nifs_E, nifs_W) ==
  IF fail = "decompress_T_W" \/ ~decompress(nifs_W.nifs.comm_T).ok
  THEN prove_step_return_err(self, d, "DecompressionError")
  ELSE IF fail \in {"synthesize", "primary_instance"}
  THEN prove_step_return_err(self, d, prove_step_error(fail))
  ELSE prove_step_assign(self, d, fail, nifs_p, nifs_W,
         AugmentedCircuit_synthesize(p, prove_step_inputs(self, p, d, nifs_p, nifs_E, nifs_W),
                                     c_primary))

\* a prove_step that folds the W CycleFold instance into the running CycleFold pair of
\* before the step, dropping the E fold
prove_step_cyclefold_W_into_running(self, p, d, c_primary, fail, nifs_p, nifs_E) ==
  IF fail = "decompress_T_E" \/ ~decompress(nifs_E.nifs.comm_T).ok
  THEN prove_step_return_err(self, d, "DecompressionError")
  ELSE IF fail \in {"cyclefold_W_instance", "nifs_cyclefold_W"}
  THEN prove_step_return_err(self, d, prove_step_error(fail))
  ELSE prove_step_synthesize(self, p, d, c_primary, fail, nifs_p, nifs_E,
         NIFS_prove(p.ck_cyclefold, p.ro_consts_cyclefold, scalar_as_base(d.val),
                    r1cs_shape_cyclefold, self.r_U_cyclefold, self.r_W_cyclefold,
                    prove_step_cf_W(self, p, nifs_p).u, prove_step_cf_W(self, p, nifs_p).w))

\* prove_step: decompress comm_T_E, derive the W CycleFold instance, fold it into the E fold
prove_step_cyclefold_W(self, p, d, c_primary, fail, nifs_p, nifs_E) ==
  IF fail = "decompress_T_E" \/ ~decompress(nifs_E.nifs.comm_T).ok
  THEN prove_step_return_err(self, d, "DecompressionError")
  ELSE IF fail \in {"cyclefold_W_instance", "nifs_cyclefold_W"}
  THEN prove_step_return_err(self, d, prove_step_error(fail))
  ELSE prove_step_synthesize(self, p, d, c_primary, fail, nifs_p, nifs_E,
         NIFS_prove(p.ck_cyclefold, p.ro_consts_cyclefold, scalar_as_base(d.val),
                    r1cs_shape_cyclefold, nifs_E.U, nifs_E.W,
                    prove_step_cf_W(self, p, nifs_p).u, prove_step_cf_W(self, p, nifs_p).w))

\* prove_step: decompress comm_T, derive the E CycleFold instance, fold it into the running
\* CycleFold pair
prove_step_cyclefold_E(self, p, d, c_primary, fail, nifs_p) ==
  IF fail = "decompress_T" \/ ~decompress(nifs_p.nifs.comm_T).ok
  THEN prove_step_return_err(self, d, "DecompressionError")
  ELSE IF fail \in {"cyclefold_E_instance", "nifs_cyclefold_E"}
  THEN prove_step_return_err(self, d, prove_step_error(fail))
  ELSE prove_step_cyclefold_W(self, p, d, c_primary, fail, nifs_p,
         NIFS_prove(p.ck_cyclefold, p.ro_consts_cyclefold, scalar_as_base(d.val),
                    r1cs_shape_cyclefold, self.r_U_cyclefold, self.r_W_cyclefold,
                    prove_step_cf_E(self, p, nifs_p).u, prove_step_cf_E(self, p, nifs_p).w))

\* prove_step: the primary fold; d is what pp.digest() returned and left in the cell
prove_step_primary(self, p, d, c_primary, fail) ==
  IF fail = "nifs_primary"
  THEN prove_step_return_err(self, d, prove_step_error(fail))
  ELSE prove_step_cyclefold_E(self, p, d, c_primary, fail,
         NIFS_prove(p.ck_primary, p.ro_consts_primary, d.val, r1cs_shape_primary,
                    self.r_U_primary, self.r_W_primary, self.l_u_primary, self.l_w_primary))

\* a prove_step whose first call returns without advancing the counter
prove_step_no_first_increment(self, p, cell, c_primary, fail) ==
  IF self.i = 0
  THEN [res |-> Ok(<<>>), self |-> self, cell |-> cell]
  ELSE prove_step_primary(self, p, digest(p, cell), c_primary, fail)

\* a prove_step without the early return: the first call folds like every other
prove_step_first_call_folds(self, p, cell, c_primary, fail) ==
  prove_step_primary(self, p, digest(p, cell), c_primary, fail)

\* RecursiveSNARK::prove_step
prove_step(self, p, cell, c_primary, fail) ==
  IF self.i = 0
  THEN [res |-> Ok(<<>>), self |-> [self EXCEPT !.i = 1], cell |-> cell]
  ELSE prove_step_primary(self, p, digest(p, cell), c_primary, fail)

\* verify: what the three satisfiability checks leave of the result
verify_sat(self, res_r_primary, res_l_primary, res_r_cyclefold) ==
  IF res_r_primary # "Ok" THEN Err(res_r_primary)
  ELSE IF res_l_primary # "Ok" THEN Err(res_l_primary)
  ELSE IF res_r_cyclefold # "Ok" THEN Err(res_r_cyclefold)
  ELSE Ok(self.zi_primary)

\* verify: the two hashes against l_u_primary.X[0] and l_u_primary.X[1], then the checks
verify_hashes(self, p, hash_primary, hash_cyclefold) ==
  IF Len(self.l_u_primary.X) < 1 THEN Panic
  ELSE IF scalar_as_base(hash_primary) # self.l_u_primary.X[1] THEN Err("ProofVerifyError")
  ELSE IF Len(self.l_u_primary.X) < 2 THEN Panic
  ELSE IF scalar_as_base(hash_cyclefold) # self.l_u_primary.X[2] THEN Err("ProofVerifyError")
  ELSE verify_sat(self,
         is_sat_relaxed(r1cs_shape_primary, p.ck_primary, self.r_U_primary, self.r_W_primary),
         is_sat(r1cs_shape_primary, p.ck_primary, self.l_u_primary, self.l_w_primary),
         is_sat_relaxed(r1cs_shape_cyclefold, p.ck_cyclefold,
                        self.r_U_cyclefold, self.r_W_cyclefold))

\* a verify that moves zi_primary out of self instead of cloning it
verify_checked_take(self, p, d, num_steps, z0_primary) ==
  [res  |-> verify_hashes(self, p,
              RO(p.ro_consts_primary,
                 <<d.val, Mod(num_steps)>> \o z0_primary \o self.zi_primary
                   \o absorb_primary_relaxed_r1cs(self.r_U_primary)),
              RO(p.ro_consts_cyclefold,
                 <<d.val, Mod(num_steps)>> \o absorb_in_ro(self.r_U_cyclefold))),
   self |-> [self EXCEPT !.zi_primary = <<>>],
   cell |-> d.cell]

\* verify after the four early checks: d is what pp.digest() returned and left in the cell
verify_checked(self, p, d, num_steps, z0_primary) ==
  [res  |-> verify_hashes(self, p,
              RO(p.ro_consts_primary,
                 <<d.val, Mod(num_steps)>> \o z0_primary \o self.zi_primary
                   \o absorb_primary_relaxed_r1cs(self.r_U_primary)),
              RO(p.ro_consts_cyclefold,
                 <<d.val, Mod(num_steps)>> \o absorb_in_ro(self.r_U_cyclefold))),
   self |-> self,
   cell |-> d.cell]

\* RecursiveSNARK::verify; self is the snark that verify leaves behind
verify(self, p, cell, num_steps, z0_primary) ==
  IF \/ num_steps = 0
     \/ self.i # num_steps
     \/ self.z0_primary # z0_primary
     \/ Len(self.r_U_primary.X) # NUM_IO_PRIMARY
  THEN [res |-> Err("ProofVerifyError"), self |-> self, cell |-> cell]
  ELSE verify_checked(self, p, digest(p, cell), num_steps, z0_primary)

\* ------------------------------------------------------------------ state
VARIABLES
  pp,           \* the shared PublicParams (every field but the memo cell)
  digest_cell,  \* PublicParams.digest: the OnceCell
  made,         \* a RecursiveSNARK value exists
  snark,        \* the RecursiveSNARK
  honest,       \* snark came from new and prove_step alone, not from received bytes
  okSteps,      \* prove_step calls that returned Ok since new
  last,         \* the last call: operation and result
  pc,           \* per concurrent session: where it is inside digest()
  ret,          \* per concurrent session: what its last digest() returned
  init_lock,    \* the session running the OnceCell initializer, 0 when none
  calls,        \* per concurrent session: digest() calls made
  key,          \* a CommitmentKey: the sequence of its generators
  wire,         \* a byte string as handed to CommitmentKey::from_bytes
  result        \* the last call on a key, a commitment or a field element, and its result

vars ==
  <<pp, digest_cell, made, snark, honest, okSteps, last, pc, ret, init_lock, calls,
    key, wire, result>>

keyVars == <<key, wire, result>>

sessionVars == <<pc, ret, init_lock, calls, keyVars>>

proverVars == <<pp, digest_cell, made, snark, honest, okSteps, last, pc, ret, init_lock, calls>>

Threads == 1 .. NThreads

\* the step circuit the session was set up with
the_circuit == "SquareCircuit"

\* initial inputs handed to new and verify: every length around the arity
Z0Inputs == {<<>>} \cup {<<a>> : a \in 0 .. MaxZ0} \cup {<<1, 1>>}

NumStepsInputs == 0 .. MaxSteps

Call(op, res) == [op |-> op, res |-> res]

Init ==
  /\ pp = PublicParams_setup(the_circuit, 0, 0)
  /\ digest_cell = OnceCell_new
  /\ made = FALSE
  /\ snark = NoSNARK
  /\ honest = TRUE
  /\ okSteps = 0
  /\ last = Call("setup", Ok(<<>>))
  /\ pc = [t \in Threads |-> "idle"]
  /\ ret = [t \in Threads |-> [set |-> FALSE, val |-> 0, via |-> "none"]]
  /\ init_lock = 0
  /\ calls = [t \in Threads |-> 0]
  /\ key = <<>>
  /\ wire = <<>>
  /\ result = [op |-> "none"]

\* let snark = RecursiveSNARK::new(&pp, &c, &z0)?
New(z0, fail) ==
  \E n \in {new(pp, digest_cell, the_circuit, z0, fail)} :
      /\ digest_cell' = n.cell
      /\ last' = Call("new", n.res)
      /\ IF n.res.kind = "Ok"
         THEN made' = TRUE /\ snark' = n.self /\ honest' = TRUE /\ okSteps' = 0
         ELSE UNCHANGED <<made, snark, honest, okSteps>>
      /\ UNCHANGED <<pp, sessionVars>>

\* snark.prove_step(&pp, &c)
ProveStep(fail) ==
  /\ made /\ honest
  /\ snark.i < MaxSteps
  /\ \E s \in {prove_step(snark, pp, digest_cell, the_circuit, fail)} :
         /\ snark' = s.self
         /\ digest_cell' = s.cell
         /\ okSteps' = IF s.res.kind = "Ok" THEN okSteps + 1 ELSE okSteps
         /\ last' = Call("prove_step", s.res)
  /\ UNCHANGED <<pp, made, honest, sessionVars>>

\* snark.verify(&pp, num_steps, &z0)
Verify(num_steps, z0) ==
  /\ made
  /\ \E v \in {verify(snark, pp, digest_cell, num_steps, z0)} :
         /\ snark' = v.self
         /\ digest_cell' = v.cell
         /\ last' = Call("verify", v.res)
  /\ UNCHANGED <<pp, made, honest, okSteps, sessionVars>>

\* pp.digest()
Digest ==
  /\ \E d \in {digest(pp, digest_cell)} :
         /\ digest_cell' = d.cell
         /\ last' = Call("digest", Ok(<<d.val>>))
  /\ UNCHANGED <<pp, made, snark, honest, okSteps, sessionVars>>

\* what received bytes can differ in from the bytes of the snark that was serialized
Tampers ==
  {"r_W_primary", "l_w_primary", "r_W_cyclefold", "l_u_X0", "l_u_X1",
   "r_U_X_len", "l_u_X_len", "l_u_X_empty"}

Bump(seq, k) == [seq EXCEPT ![k] = Mod(@ + 1)]

\* #[derive(Deserialize)] for RecursiveSNARK: every field is taken from the bytes as it is
deserialize(self, t) ==
  CASE t = "r_W_primary"   -> [self EXCEPT !.r_W_primary.W = Bump(@, 1)]
    [] t = "l_w_primary"   -> [self EXCEPT !.l_w_primary.W = Bump(@, 2)]
    [] t = "r_W_cyclefold" -> [self EXCEPT !.r_W_cyclefold.W = Bump(@, 1)]
    [] t = "l_u_X0"        -> [self EXCEPT !.l_u_primary.X = Bump(@, 1)]
    [] t = "l_u_X1"        -> [self EXCEPT !.l_u_primary.X = Bump(@, 2)]
    [] t = "r_U_X_len"     -> [self EXCEPT !.r_U_primary.X = SubSeq(@, 1, 1)]
    [] t = "l_u_X_len"     -> [self EXCEPT !.l_u_primary.X = SubSeq(@, 1, 1)]
    [] t = "l_u_X_empty"   -> [self EXCEPT !.l_u_primary.X = <<>>]

\* a RecursiveSNARK read back from bytes that were altered on the way
Deserialize(t) ==
  /\ made /\ honest
  /\ snark' = deserialize(snark, t)
  /\ honest' = FALSE
  /\ last' = Call("deserialize", Ok(<<>>))
  /\ UNCHANGED <<pp, digest_cell, made, okSteps, sessionVars>>

Next ==
  \/ \E z0 \in Z0Inputs, fail \in NewFails : New(z0, fail)
  \/ \E fail \in ProveFailSet : ProveStep(fail)
  \/ \E num_steps \in NumStepsInputs, z0 \in Z0Inputs : Verify(num_steps, z0)
  \/ Digest
  \/ \E t \in Tampers : Deserialize(t)

Spec == Init /\ [][Next]_vars

\* ------------------------------------------------- sessions sharing one PublicParams
\* one PublicParams per commitment-key hint, shared by every session
InitConc ==
  /\ pp \in {PublicParams_setup(the_circuit, h, h) : h \in CkHints}
  /\ digest_cell = OnceCell_new
  /\ made = FALSE
  /\ snark = NoSNARK
  /\ honest = TRUE
  /\ okSteps = 0
  /\ last = Call("setup", Ok(<<>>))
  /\ pc = [t \in Threads |-> "idle"]
  /\ ret = [t \in Threads |-> [set |-> FALSE, val |-> 0, via |-> "none"]]
  /\ init_lock = 0
  /\ calls = [t \in Threads |-> 0]
  /\ key = <<>>
  /\ wire = <<>>
  /\ result = [op |-> "none"]

\* what a digest() call of a session returned, and by which path
Returned(d, via) == [set |-> TRUE, val |-> d.val, via |-> via]

\* digest() entered by session t and the cell already holds a value: return its clone
DigestGet(t) ==
  /\ pc[t] = "idle"
  /\ calls[t] < MaxCalls
  /\ digest_cell.set
  /\ calls' = [calls EXCEPT ![t] = @ + 1]
  /\ \E d \in {get_or_try_init(digest_cell, DigestComputer_digest(pp))} :
        /\ ret' = [ret EXCEPT ![t] = Returned(d, "get")]
        /\ digest_cell' = d.cell
  /\ UNCHANGED <<keyVars, pp, made, snark, honest, okSteps, last, pc, init_lock>>

\* digest() entered by session t and the cell is empty: go on to initialize it
DigestMiss(t) ==
  /\ pc[t] = "idle"
  /\ calls[t] < MaxCalls
  /\ ~digest_cell.set
  /\ calls' = [calls EXCEPT ![t] = @ + 1]
  /\ pc' = [pc EXCEPT ![t] = "wait"]
  /\ UNCHANGED <<keyVars, pp, digest_cell, made, snark, honest, okSteps, last, ret, init_lock>>

\* session t gets to run the initializer: no other session is running it, cell still empty
DigestLock(t) ==
  /\ pc[t] = "wait"
  /\ init_lock = 0
  /\ ~digest_cell.set
  /\ init_lock' = t
  /\ pc' = [pc EXCEPT ![t] = "running"]
  /\ UNCHANGED <<keyVars, pp, digest_cell, made, snark, honest, okSteps, last, ret, calls>>

\* session t waited while another session initialized the cell: return that value
DigestWaited(t) ==
  /\ pc[t] = "wait"
  /\ init_lock = 0
  /\ digest_cell.set
  /\ \E d \in {get_or_try_init(digest_cell, DigestComputer_digest(pp))} :
        /\ ret' = [ret EXCEPT ![t] = Returned(d, "waited")]
        /\ digest_cell' = d.cell
  /\ pc' = [pc EXCEPT ![t] = "idle"]
  /\ UNCHANGED <<keyVars, pp, made, snark, honest, okSteps, last, init_lock, calls>>

\* session t finishes the initializer: store the computed digest and return it
DigestInit(t) ==
  /\ pc[t] = "running"
  /\ \E d \in {get_or_try_init(digest_cell, DigestComputer_digest(pp))} :
        /\ ret' = [ret EXCEPT ![t] = Returned(d, "init")]
        /\ digest_cell' = d.cell
  /\ init_lock' = 0
  /\ pc' = [pc EXCEPT ![t] = "idle"]
  /\ UNCHANGED <<keyVars, pp, made, snark, honest, okSteps, last, calls>>

NextConc ==
  \/ \E t \in Threads : DigestGet(t)
  \/ \E t \in Threads : DigestMiss(t)
  \/ \E t \in Threads : DigestLock(t)
  \/ \E t \in Threads : DigestWaited(t)
  \/ \E t \in Threads : DigestInit(t)

SpecConc == InitConc /\ [][NextConc]_vars

\* ---------------------------------------------------- CommitmentKey bytes
\* fast_serde::MAGIC_NUMBER = [0x50, 0x4C, 0x55, 0x54]
MAGIC_NUMBER == <<80, 76, 85, 84>>

\* SerdeByteTypes::CommitmentKey = 0x03
SerdeByteTypes_CommitmentKey == 3

\* the number of sections and the section type to_bytes writes and from_bytes expects
CK_SECTIONS == 1

CK_SECTION_TYPE == 1

\* the identity of the group
identity == 0

\* the second coordinate of the affine point with first coordinate g
curve_y(g) == Mod(g * g + 1)

\* SerdeObject::to_raw_bytes of an affine point: both coordinates, fixed width
to_raw_bytes(g) == <<g, curve_y(g)>>

Some(v) == [some |-> TRUE, val |-> v]

NoneOption == [some |-> FALSE, val |-> 0]

\* SerdeObject::from_raw_bytes: None unless the width is right, the coordinates are field
\* elements and the point is on the curve
from_raw_bytes(b) ==
  IF Len(b) = Len(to_raw_bytes(identity)) /\ b[1] \in Fp /\ b[2] = curve_y(b[1])
  THEN Some(b[1]) ELSE NoneOption

\* the concatenation of seqs[lo .. hi], by halves
RECURSIVE FlattenRange(_, _, _)
FlattenRange(seqs, lo, hi) ==
  IF lo > hi THEN <<>>
  ELSE IF lo = hi THEN seqs[lo]
  ELSE FlattenRange(seqs, lo, (lo + hi) \div 2) \o FlattenRange(seqs, ((lo + hi) \div 2) + 1, hi)

\* iter().flat_map(f).collect()
flat_map(seqs) == FlattenRange(seqs, 1, Len(seqs))

\* u32::to_le_bytes
to_le_bytes(n) ==
  <<n % 256, (n \div 256) % 256, (n \div 65536) % 256, (n \div 16777216) % 256>>

\* u32::from_le_bytes, for values below 2^31
from_le_bytes(b) == b[1] + 256 * b[2] + 65536 * b[3] + 16777216 * b[4]

\* a write_section_bytes that writes the length big-endian
write_section_bytes_be(out, section_type, data) ==
  out \o <<section_type>>
      \o <<to_le_bytes(Len(data))[4], to_le_bytes(Len(data))[3],
           to_le_bytes(Len(data))[2], to_le_bytes(Len(data))[1]>>
      \o data

\* FastSerde::write_section_bytes
write_section_bytes(out, section_type, data) ==
  out \o <<section_type>> \o to_le_bytes(Len(data)) \o data

\* CommitmentKey::to_bytes
to_bytes(ck) ==
  write_section_bytes(MAGIC_NUMBER \o <<SerdeByteTypes_CommitmentKey>> \o <<CK_SECTIONS>>,
                      CK_SECTION_TYPE,
                      flat_map([k \in 1 .. Len(ck) |-> to_raw_bytes(ck[k])]))

\* Cursor::read_exact of n bytes at position pos fails when fewer than n bytes are left
read_exact_fails(bytes, pos, n) == Len(bytes) - pos < n

\* a validate_header that looks at the type tag before the magic number
validate_header_type_first(bytes, expected_type, expected_sections) ==
  IF read_exact_fails(bytes, 0, 5) THEN Err("IoError")
  ELSE IF bytes[5] # expected_type THEN Err("InvalidSerdeType")
  ELSE IF SubSeq(bytes, 1, 4) # MAGIC_NUMBER THEN Err("InvalidMagicNumber")
  ELSE IF read_exact_fails(bytes, 5, 1) THEN Err("IoError")
  ELSE IF bytes[6] # expected_sections THEN Err("InvalidSectionCount")
  ELSE Ok(6)

\* FastSerde::validate_header; Ok carries the cursor position after the header
validate_header(bytes, expected_type, expected_sections) ==
  IF read_exact_fails(bytes, 0, 4) THEN Err("IoError")
  ELSE IF SubSeq(bytes, 1, 4) # MAGIC_NUMBER THEN Err("InvalidMagicNumber")
  ELSE IF read_exact_fails(bytes, 4, 1) THEN Err("IoError")
  ELSE IF bytes[5] # expected_type THEN Err("InvalidSerdeType")
  ELSE IF read_exact_fails(bytes, 5, 1) THEN Err("IoError")
  ELSE IF bytes[6] # expected_sections THEN Err("InvalidSectionCount")
  ELSE Ok(6)

\* read_section_bytes from the section size on: a size of 2^31 or more is longer than
\* every byte string considered here
read_section_data(bytes, pos, section_size) ==
  IF section_size[4] >= 128 THEN Err("IoError")
  ELSE IF read_exact_fails(bytes, pos, from_le_bytes(section_size)) THEN Err("IoError")
  ELSE Ok(SubSeq(bytes, pos + 1, pos + from_le_bytes(section_size)))

\* FastSerde::read_section_bytes with the cursor at pos
read_section_bytes(bytes, pos, expected_type) ==
  IF read_exact_fails(bytes, pos, 1) THEN Err("IoError")
  ELSE IF bytes[pos + 1] # expected_type THEN Err("InvalidSectionType")
  ELSE IF read_exact_fails(bytes, pos + 1, 4) THEN Err("IoError")
  ELSE read_section_data(bytes, pos + 5, SubSeq(bytes, pos + 2, pos + 5))

\* slice::chunks_exact(w): pieces of w elements, a shorter rest is left out
chunks_exact(data, w) ==
  [k \in 1 .. (Len(data) \div w) |-> SubSeq(data, (k - 1) * w + 1, k * w)]

\* slice::chunks(w): pieces of w elements, the last one shorter when w does not divide
chunks(data, w) ==
  [k \in 1 .. ((Len(data) + w - 1) \div w) |->
     SubSeq(data, (k - 1) * w + 1, IF k * w <= Len(data) THEN k * w ELSE Len(data))]

\* map(from_raw_bytes(..).ok_or(G1DecodeError)).collect::<Result<Vec<_>, _>>()
collect_points(pieces) ==
  IF \E k \in 1 .. Len(pieces) : ~from_raw_bytes(pieces[k]).some
  THEN Err("G1DecodeError")
  ELSE Ok([k \in 1 .. Len(pieces) |-> from_raw_bytes(pieces[k]).val])

\* from_bytes once read_section_bytes has returned
from_bytes_section(section) ==
  IF section.kind # "Ok" THEN section
  ELSE collect_points(chunks(section.val, Len(to_raw_bytes(identity))))

\* from_bytes once validate_header has returned
from_bytes_validated(bytes, header) ==
  IF header.kind # "Ok" THEN header
  ELSE from_bytes_section(read_section_bytes(bytes, header.val, CK_SECTION_TYPE))

\* CommitmentKey::from_bytes
from_bytes(bytes) ==
  from_bytes_validated(bytes,
    validate_header(bytes, SerdeByteTypes_CommitmentKey, CK_SECTIONS))

\* labels and lengths setup is called with
Labels == 0 .. MaxLabel

KeySizes == 0 .. MaxKeySize

\* what a changed byte is changed to
CorruptValues(b) == {0, 2, (b + 1) % 256, (b + 255) % 256} \ {b}

\* let ck = CommitmentEngine::setup(label, n)
KeySetup(label, n) ==
  /\ result.op = "none"
  /\ key' = setup(label, n)
  /\ result' = [op |-> "setup", edits |-> 0, label |-> label, n |-> n]
  /\ UNCHANGED <<wire, proverVars>>

\* let bytes = ck.to_bytes()
KeyToBytes ==
  /\ result.op = "setup"
  /\ wire' = to_bytes(key)
  /\ result' = [op |-> "to_bytes", edits |-> 0]
  /\ UNCHANGED <<key, proverVars>>

\* one byte of the stored or transmitted bytes is replaced by another value
WireCorrupt(pos, b) ==
  /\ result.op \in {"to_bytes", "corrupt", "truncate"}
  /\ result.edits < MaxEdits
  /\ pos \in 1 .. Len(wire)
  /\ b \in CorruptValues(wire[pos])
  /\ wire' = [wire EXCEPT ![pos] = b]
  /\ result' = [op |-> "corrupt", edits |-> result.edits + 1]
  /\ UNCHANGED <<key, proverVars>>

\* the bytes end early: only the first n arrive
WireTruncate(n) ==
  /\ result.op \in {"to_bytes", "corrupt"}
  /\ result.edits < MaxEdits
  /\ n < Len(wire)
  /\ wire' = SubSeq(wire, 1, n)
  /\ result' = [op |-> "truncate", edits |-> result.edits + 1]
  /\ UNCHANGED <<key, proverVars>>

\* CommitmentKey::from_bytes(&bytes)
KeyFromBytes ==
  /\ result.op \in {"to_bytes", "corrupt", "truncate"}
  /\ result' = [op |-> "from_bytes", edits |-> result.edits, res |-> from_bytes(wire)]
  /\ UNCHANGED <<key, wire, proverVars>>

NextBytes ==
  \/ \E n \in KeySizes : KeySetup(0, n)
  \/ KeyToBytes
  \/ \E pos \in 1 .. Len(wire) : \E b \in CorruptValues(wire[pos]) : WireCorrupt(pos, b)
  \/ \E n \in 0 .. Len(wire) : WireTruncate(n)
  \/ KeyFromBytes

SpecBytes == Init /\ [][NextBytes]_vars

\* ------------------------------------------------- commitments and key folding
\* a failed assertion aborts the call: no Result is returned
Abort(msg) == [kind |-> "Panic", err |-> msg, val |-> <<>>]

Min(a, b) == IF a <= b THEN a ELSE b

\* zip_with!(par_iter, (a, b), f): the pairs f is applied to, up to the end of the shorter
\* input
zip_with(a, b) == [k \in 1 .. Min(Len(a), Len(b)) |-> <<a[k], b[k]>>]

\* Curve::batch_normalize(p, &mut q): assert_eq!(p.len(), q.len()), then q[i] = p[i]
batch_normalize(p, q) ==
  IF Len(p) = Len(q) THEN Ok(p) ELSE Abort("assertion failed: p.len() == q.len()")

\* CommitmentKey::fold; debug_assertions tells whether the build compiled debug_assert! in
fold(L, R, w1, w2, debug_assertions) ==
  IF debug_assertions /\ Len(L) # Len(R)
  THEN Abort("assertion failed: L.ck.len() == R.ck.len()")
  ELSE batch_normalize(
         [k \in 1 .. Len(zip_with(L, R)) |->
            vartime_multiscalar_mul(<<w1, w2>>, zip_with(L, R)[k])],
         [k \in 1 .. Len(L) |-> identity])

\* scalar vectors offered to commit
Vectors(n) == [1 .. n -> Fp]

AllVectors == UNION {Vectors(n) : n \in 0 .. MaxVecLen}

\* the other party runs CommitmentEngine::setup with the same label and n
KeySetupAgain ==
  /\ result.op = "setup"
  /\ result' = [op |-> "setup_again", label |-> result.label, n |-> result.n,
                res |-> setup(result.label, result.n)]
  /\ UNCHANGED <<key, wire, proverVars>>

\* let c = CommitmentEngine::commit(&ck, &v)
Commit(v) ==
  /\ result.op = "setup"
  /\ result' = [op |-> "commit", v |-> v, res |-> commit(key, v)]
  /\ UNCHANGED <<key, wire, proverVars>>

\* let c = c + CommitmentEngine::commit(&ck, &b), for a vector b as long as the one behind c
CommitAdd(b) ==
  /\ result.op \in {"commit", "add", "mul"}
  /\ Len(result.v) <= Len(key)
  /\ Len(b) = Len(result.v)
  /\ result' = [op |-> "add", v |-> VAdd(result.v, b),
                res |-> CommitmentAdd(result.res, commit(key, b))]
  /\ UNCHANGED <<key, wire, proverVars>>

\* let c = c * r
CommitMul(r) ==
  /\ result.op \in {"commit", "add", "mul"}
  /\ Len(result.v) <= Len(key)
  /\ result' = [op |-> "mul", v |-> VScale(r, result.v),
                res |-> CommitmentMul(result.res, r)]
  /\ UNCHANGED <<key, wire, proverVars>>

\* let ck = CommitmentKey::fold(&ck, &R, &w1, &w2) with R = setup(label, n)
KeyFold(label, n, w1, w2, debug_assertions) ==
  /\ result.op = "setup"
  /\ result' = [op |-> "fold", R |-> setup(label, n), w1 |-> w1, w2 |-> w2,
                res |-> fold(key, setup(label, n), w1, w2, debug_assertions)]
  /\ UNCHANGED <<key, wire, proverVars>>

NextPedersen ==
  \/ \E label \in Labels, n \in KeySizes : KeySetup(label, n)
  \/ KeySetupAgain
  \/ \E v \in AllVectors : Commit(v)
  \/ \E b \in AllVectors : CommitAdd(b)
  \/ \E r \in Fp : CommitMul(r)
  \/ \E label \in Labels, n \in KeySizes, w1 \in Fp, w2 \in Fp, debug_assertions \in BOOLEAN :
       KeyFold(label, n, w1, w2, debug_assertions)

SpecPedersen == Init /\ [][NextPedersen]_vars

\* ------------------------------------------------------- compressed commitments
\* CommitmentKey::reinterpret_commitments_as_ck
reinterpret_commitments_as_ck(c) ==
  IF \E k \in 1 .. Len(c) : ~decompress(c[k]).ok
  THEN Err("DecompressionError")
  ELSE batch_normalize([k \in 1 .. Len(c) |-> decompress(c[k]).comm],
                       [k \in 1 .. Len(c) |-> identity])

\* encodings that are no curve point
InvalidEncodings == {<<"pt", P>>, <<"pt", P + 1>>}

\* compressed commitments received from outside
CompressedInputs == {compress(c) : c \in Fp} \cup InvalidEncodings

CompressedSeqs == UNION {[1 .. n -> CompressedInputs] : n \in 0 .. MaxVecLen}

\* the callees of prove_step that are Commitment::decompress
DecompressFails == {"decompress_T", "decompress_T_E", "decompress_T_W"}

\* let c = Commitment::decompress(&cc)
Decompress(cc) ==
  /\ result.op = "none"
  /\ result' = [op |-> "decompress", arg |-> cc, res |-> decompress(cc)]
  /\ UNCHANGED <<key, wire, proverVars>>

\* let ck = CommitmentKey::reinterpret_commitments_as_ck(&c)
Reinterpret(c) ==
  /\ result.op = "none"
  /\ result' = [op |-> "reinterpret", arg |-> c, res |-> reinterpret_commitments_as_ck(c)]
  /\ UNCHANGED <<key, wire, proverVars>>

\* commitments are decoded before the prover starts; then new and prove_step run
NextDecompress ==
  \/ ~made /\ \E cc \in CompressedInputs : Decompress(cc)
  \/ ~made /\ \E c \in CompressedSeqs : Reinterpret(c)
  \/ result.op = "none" /\ \E z0 \in Z0Inputs, fail \in NewFails : New(z0, fail)
  \/ result.op = "none" /\ \E fail \in ProveFailSet : ProveStep(fail)

SpecDecompress == Init /\ [][NextDecompress]_vars

\* ------------------------------------------------------------ field conversion
\* ark_bn254::Fr, the field of the IR
ACIR_MODULUS == FieldModulus

\* F<G1>, the scalar field of the proving curve: the same prime as ark_bn254::Fr
HALO2_MODULUS == ACIR_MODULUS

AcirField == 0 .. ACIR_MODULUS - 1

Halo2Field == 0 .. HALO2_MODULUS - 1

\* the integer a little-endian byte string stands for
RECURSIVE le_value(_)
le_value(bytes) ==
  IF bytes = <<>> THEN 0 ELSE bytes[1] + 256 * le_value(Tail(bytes))

\* <[u8]>::reverse
reverse(bytes) == [k \in 1 .. Len(bytes) |-> bytes[Len(bytes) + 1 - k]]

\* GenericFieldElement::to_be_bytes
acir_to_be_bytes(f) == [k \in 1 .. ReprBytes |-> (f \div (256 ^ (ReprBytes - k))) % 256]

\* GenericFieldElement::from_be_bytes_reduce
from_be_bytes_reduce(bytes) == le_value(reverse(bytes)) % ACIR_MODULUS

\* PrimeField::to_repr of F<G1>: little-endian
halo2_to_bytes(f) == [k \in 1 .. ReprBytes |-> (f \div (256 ^ (k - 1))) % 256]

\* PrimeField::from_repr of F<G1>: None for a value that is no canonical element
halo2_from_repr(arr) ==
  IF le_value(arr) < HALO2_MODULUS THEN Some(le_value(arr)) ELSE NoneOption

\* Option::unwrap
unwrap(opt) ==
  IF opt = NoneOption THEN Abort("called Option::unwrap() on a None value")
  ELSE Ok(opt.val)

\* a convert_to_halo2_field that leaves the bytes in big-endian order
convert_to_halo2_field_unreversed(f) ==
  unwrap(halo2_from_repr(SubSeq(acir_to_be_bytes(f), 1, ReprBytes)))

\* convert_to_halo2_field
convert_to_halo2_field(f) ==
  unwrap(halo2_from_repr(reverse(SubSeq(acir_to_be_bytes(f), 1, ReprBytes))))

\* convert_to_acir_field
convert_to_acir_field(f) == from_be_bytes_reduce(reverse(halo2_to_bytes(f)))

\* let g = convert_to_acir_field(f)
ToAcir(f) ==
  /\ result.op = "none"
  /\ result' = [op |-> "to_acir", f |-> f, res |-> convert_to_acir_field(f)]
  /\ UNCHANGED <<key, wire, proverVars>>

\* let f2 = convert_to_halo2_field(g)
BackToHalo2 ==
  /\ result.op = "to_acir"
  /\ result' = [op |-> "back_to_halo2", f |-> result.f,
                res |-> convert_to_halo2_field(result.res)]
  /\ UNCHANGED <<key, wire, proverVars>>

\* let f = convert_to_halo2_field(g)
ToHalo2(g) ==
  /\ result.op = "none"
  /\ result' = [op |-> "to_halo2", f |-> g, res |-> convert_to_halo2_field(g)]
  /\ UNCHANGED <<key, wire, proverVars>>

\* let g2 = convert_to_acir_field(f)
BackToAcir ==
  /\ result.op = "to_halo2"
  /\ result.res.kind = "Ok"
  /\ result' = [op |-> "back_to_acir", f |-> result.f,
                res |-> convert_to_acir_field(result.res.val)]
  /\ UNCHANGED <<key, wire, proverVars>>

NextField ==
  \/ \E f \in Halo2Field : ToAcir(f)
  \/ BackToHalo2
  \/ \E g \in AcirField : ToHalo2(g)
  \/ BackToAcir

SpecField == Init /\ [][NextField]_vars

\* -------------------------------------------------------------------- NoirProgram
FMod(x) == ((x % HALO2_MODULUS) + HALO2_MODULUS) % HALO2_MODULUS

\* Variable::new_unchecked(Index::Input(0)), the constant one
ONE == [kind |-> "Input", idx |-> 0]

\* the variable allocated_vars holds for a witness
Var(w) == [kind |-> "Witness", idx |-> w]

\* Opcode::AssertZero(gate); a term of mul_terms is <<coeff, left, right>>, a term of
\* linear_combinations is <<coeff, witness>>
AssertZero(mul_terms, linear_combinations, q_c) ==
  [kind |-> "AssertZero", mul_terms |-> mul_terms,
   linear_combinations |-> linear_combinations, q_c |-> q_c]

\* an opcode that is no AssertZero
BrilligCall == [kind |-> "BrilligCall", mul_terms |-> <<>>, linear_combinations |-> <<>>, q_c |-> 0]

\* NoirProgram::arity
NoirProgram_arity(self) == Len(self.public_parameters)

\* <NoirProgram as StepCircuit>::arity
NoirProgram_StepCircuit_arity(self) == NoirProgram_arity(self) + 1

\* usize subtraction: overflow checks abort, without them the result wraps
usize_sub(a, b, overflow_checks) ==
  IF a >= b THEN Ok(a - b)
  ELSE IF overflow_checks THEN Abort("attempt to subtract with overflow")
  ELSE Ok(a - b + 2 ^ UsizeBits)

\* the constraint system: the witnesses bound to a variable so far and the constraints
EmptyCS == [bound |-> {}, constraints |-> <<>>]

\* a gate_constraint that puts the constant on the output side without negating it
gate_constraint_positive_constant(gate) ==
  [A |-> [k \in 1 .. Len(gate.mul_terms) |->
            <<convert_to_halo2_field(gate.mul_terms[k][1]).val, Var(gate.mul_terms[k][2])>>],
   B |-> [k \in 1 .. Len(gate.mul_terms) |-> <<1, Var(gate.mul_terms[k][3])>>],
   C |-> [k \in 1 .. Len(gate.linear_combinations) |->
            <<convert_to_halo2_field(gate.linear_combinations[k][1]).val,
              Var(gate.linear_combinations[k][2])>>]
         \o (IF gate.q_c # 0
             THEN <<<<convert_to_halo2_field(gate.q_c).val, ONE>>>>
             ELSE <<>>)]

\* the three linear combinations synthesize builds for one gate
gate_constraint(gate) ==
  [A |-> [k \in 1 .. Len(gate.mul_terms) |->
            <<convert_to_halo2_field(gate.mul_terms[k][1]).val, Var(gate.mul_terms[k][2])>>],
   B |-> [k \in 1 .. Len(gate.mul_terms) |-> <<1, Var(gate.mul_terms[k][3])>>],
   C |-> [k \in 1 .. Len(gate.linear_combinations) |->
            <<convert_to_halo2_field(gate.linear_combinations[k][1]).val,
              Var(gate.linear_combinations[k][2])>>]
         \o (IF gate.q_c # 0
             THEN <<<<FMod(0 - convert_to_halo2_field(gate.q_c).val), ONE>>>>
             ELSE <<>>)]

\* the witnesses get_var is asked for while a gate is processed
gate_witnesses(gate) ==
  {gate.mul_terms[k][2] : k \in 1 .. Len(gate.mul_terms)}
    \cup {gate.mul_terms[k][3] : k \in 1 .. Len(gate.mul_terms)}
    \cup {gate.linear_combinations[k][2] : k \in 1 .. Len(gate.linear_combinations)}

\* synthesize: the gate loop over opcodes[lo .. hi]
RECURSIVE process_gates(_, _, _, _)
process_gates(opcodes, lo, hi, cs) ==
  IF lo > hi THEN cs
  ELSE process_gates(opcodes, lo + 1, hi,
         IF opcodes[lo].kind = "AssertZero"
         THEN [bound |-> cs.bound \cup gate_witnesses(opcodes[lo]),
               constraints |-> Append(cs.constraints, gate_constraint(opcodes[lo]))]
         ELSE cs)

\* synthesize: z_out, the variables of the return values
synthesize_z_out(self, cs) ==
  IF \E k \in 1 .. Len(self.return_values) : self.return_values[k] \notin cs.bound
  THEN [res |-> Abort("called Option::unwrap() on a None value"), cs |-> cs]
  ELSE [res |-> Ok([k \in 1 .. Len(self.return_values) |-> Var(self.return_values[k])]),
        cs |-> cs]

\* synthesize: public inputs are bound to z, private inputs are allocated, then the gates
synthesize_inputs(self, z, cs) ==
  IF \E k \in 1 .. Len(self.public_parameters) :
       \/ self.public_parameters[k] < Cardinality(self.private_parameters)
       \/ self.public_parameters[k] - Cardinality(self.private_parameters) >= Len(z)
  THEN [res |-> Abort("index out of bounds"), cs |-> cs]
  ELSE synthesize_z_out(self,
         process_gates(self.opcodes, 1, Len(self.opcodes),
           [cs EXCEPT !.bound =
              @ \cup {self.public_parameters[k] : k \in 1 .. Len(self.public_parameters)}
                \cup self.private_parameters]))

\* a synthesize that compares the lengths after the public inputs were bound
synthesize_late_assert(self, z, cs, overflow_checks) ==
  IF usize_sub(Len(self.return_values), 1, overflow_checks) # Ok(Len(self.public_parameters))
  THEN [res |-> Abort("assertion failed"),
        cs |-> [cs EXCEPT !.bound =
                  @ \cup {self.public_parameters[k] : k \in 1 .. Len(self.public_parameters)}]]
  ELSE synthesize_inputs(self, z, cs)

\* <NoirProgram as StepCircuit>::synthesize
synthesize(self, z, cs, overflow_checks) ==
  IF usize_sub(Len(self.return_values), 1, overflow_checks).kind = "Panic"
  THEN [res |-> usize_sub(Len(self.return_values), 1, overflow_checks), cs |-> cs]
  ELSE IF usize_sub(Len(self.return_values), 1, overflow_checks).val
            # Len(self.public_parameters)
  THEN [res |-> Abort("assertion left == right failed"), cs |-> cs]
  ELSE synthesize_inputs(self, z, cs)

\* coefficients of the gates offered: 1 and -1
MinusOne == ACIR_MODULUS - 1

MulTermLists == {<<>>, <<<<1, 1, 2>>>>, <<<<1, 1, 2>>, <<MinusOne, 2, 3>>>>}

LinearLists == {<<>>, <<<<MinusOne, 3>>>>, <<<<1, 1>>, <<MinusOne, 3>>>>}

Gates == {AssertZero(m, l, q) : m \in MulTermLists, l \in LinearLists, q \in {0, 1}}

FirstGate == AssertZero(<<<<1, 1, 2>>>>, <<<<MinusOne, 3>>>>, 0)

OpcodeLists ==
  {<<>>} \cup {<<g>> : g \in Gates} \cup {<<BrilligCall, g>> : g \in Gates}
         \cup {<<g, BrilligCall, FirstGate>> : g \in Gates}

\* programs with one private parameter, witness 0, followed by the public parameters
NoirPrograms ==
  {[private_parameters |-> {0},
    public_parameters |-> [k \in 1 .. npub |-> k],
    return_values |-> [k \in 1 .. nret |-> k],
    opcodes |-> ops] :
     npub \in 0 .. MaxParams, nret \in 0 .. MaxParams + 1, ops \in OpcodeLists}

WitnessValues == 0 .. MaxWitnessValue

\* let program = NoirProgram::new(bin)
NoirNew(program) ==
  /\ result.op = "none"
  /\ result' = [op |-> "program", program |-> program]
  /\ UNCHANGED <<key, wire, proverVars>>

\* program.synthesize(cs, pc, z) on a fresh constraint system, z of the program's arity
NoirSynthesize(overflow_checks) ==
  /\ result.op = "program"
  /\ result' = [op |-> "synthesize", program |-> result.program,
                out |-> synthesize(result.program,
                                   [k \in 1 .. NoirProgram_StepCircuit_arity(result.program)
                                      |-> k],
                                   EmptyCS, overflow_checks)]
  /\ UNCHANGED <<key, wire, proverVars>>

\* the constraint system is given an assignment of its variables
NoirAssign(assignment) ==
  /\ result.op = "synthesize"
  /\ result.out.cs.constraints # <<>>
  /\ result' = [op |-> "assign", program |-> result.program, out |-> result.out,
                assignment |-> assignment]
  /\ UNCHANGED <<key, wire, proverVars>>

NextNoir ==
  \/ \E program \in NoirPrograms : NoirNew(program)
  \/ \E overflow_checks \in BOOLEAN : NoirSynthesize(overflow_checks)
  \/ \E assignment \in [1 .. 3 -> WitnessValues] : NoirAssign(assignment)

SpecNoir == Init /\ [][NextNoir]_vars

\* ------------------------------------------------------- PublicParams on the wire
\* #[derive(Serialize)] for PublicParams: every field but digest, which is #[serde(skip)]
PublicParams_serialize(p, cell) == [fields |-> p]

\* #[derive(Deserialize)] for PublicParams: digest is filled with default = OnceCell::new
PublicParams_deserialize(bytes) == [pp |-> bytes.fields, digest |-> OnceCell_new]

\* OnceCell::get
OnceCell_get(cell) == IF cell.set THEN Some(cell.val) ELSE NoneOption

\* #[derive(PartialEq)] for PublicParams: field by field, the digest cells by their get()
PublicParams_eq(p, cell, q, qcell) == p = q /\ OnceCell_get(cell) = OnceCell_get(qcell)

\* let back = deserialize(serialize(&pp)); then pp == back, pp.digest() and back.digest()
ParamsRoundTrip ==
  /\ result.op = "none"
  /\ \E back \in {PublicParams_deserialize(PublicParams_serialize(pp, digest_cell))} :
       result' = [op |-> "pp_round_trip",
                  digest_called |-> digest_cell.set,
                  eq |-> PublicParams_eq(pp, digest_cell, back.pp, back.digest),
                  digest |-> digest(pp, digest_cell).val,
                  digest_back |-> digest(back.pp, back.digest).val]
  /\ UNCHANGED <<key, wire, proverVars>>

\* a session of new, prove_step and digest calls, then the parameters are sent somewhere
NextParams ==
  \/ ParamsRoundTrip
  \/ result.op = "none" /\ Digest
  \/ result.op = "none" /\ \E z0 \in Z0Inputs, fail \in NewFails : New(z0, fail)
  \/ result.op = "none" /\ \E fail \in ProveFailSet : ProveStep(fail)

SpecParams == Init /\ [][NextParams]_vars

\* ------------------------------------------------------------ ROM step circuits
OPCODE_0 == 0

OPCODE_1 == 1

\* get_selector_vec_from_index: one bit per rom entry, the bit of rom_index set; sat tells
\* whether its constraints hold, which needs rom_index to point into the rom
get_selector_vec_from_index(rom_index, n) ==
  [bits |-> [k \in 1 .. n |-> k - 1 = rom_index], sat |-> rom_index < n]

\* Iterator::position(..).unwrap_or_default(), counted from 0
position(bits) ==
  IF \E k \in 1 .. Len(bits) : bits[k]
  THEN (CHOOSE k \in 1 .. Len(bits) : bits[k] /\ \A j \in 1 .. k - 1 : ~bits[j]) - 1
  ELSE 0

\* a next_rom_index_and_pc that reads the next pc_cur at the current rom index
next_rom_index_and_pc_current(rom_index, allocated_rom, pc_cur) ==
  [rom_index_next |-> Mod(position(get_selector_vec_from_index(rom_index,
                                                               Len(allocated_rom)).bits) + 1),
   pc_next |-> IF position(get_selector_vec_from_index(rom_index, Len(allocated_rom)).bits)
                    < Len(allocated_rom)
               THEN allocated_rom[position(get_selector_vec_from_index(rom_index,
                                             Len(allocated_rom)).bits) + 1]
               ELSE Mod(0 - 1),
   sat |-> /\ get_selector_vec_from_index(rom_index, Len(allocated_rom)).sat
           /\ \A k \in 1 .. Len(allocated_rom) :
                get_selector_vec_from_index(rom_index, Len(allocated_rom)).bits[k]
                  => allocated_rom[k] = pc_cur]

\* next_rom_index_and_pc: the allocated (rom_index_next, pc_next) and whether the
\* constraints it enforces hold for them
next_rom_index_and_pc(rom_index, allocated_rom, pc_cur) ==
  [rom_index_next |-> Mod(position(get_selector_vec_from_index(rom_index,
                                                               Len(allocated_rom)).bits) + 1),
   pc_next |-> IF position(get_selector_vec_from_index(rom_index, Len(allocated_rom)).bits) + 1
                    < Len(allocated_rom)
               THEN allocated_rom[position(get_selector_vec_from_index(rom_index,
                                             Len(allocated_rom)).bits) + 2]
               ELSE Mod(0 - 1),
   sat |-> /\ get_selector_vec_from_index(rom_index, Len(allocated_rom)).sat
           /\ \A k \in 1 .. Len(allocated_rom) :
                get_selector_vec_from_index(rom_index, Len(allocated_rom)).bits[k]
                  => allocated_rom[k] = pc_cur
           /\ Mod(rom_index + 1)
                = Mod(position(get_selector_vec_from_index(rom_index,
                                                           Len(allocated_rom)).bits) + 1)]

\* CubicCircuit::synthesize: y = x^3 + x + 5
CubicCircuit_synthesize(pc_cur, z) ==
  [pc_next |-> next_rom_index_and_pc(z[2], SubSeq(z, 3, Len(z)), pc_cur).pc_next,
   z_next  |-> <<Mod(z[1] * z[1] * z[1] + z[1] + 5),
                 next_rom_index_and_pc(z[2], SubSeq(z, 3, Len(z)), pc_cur).rom_index_next>>
               \o SubSeq(z, 3, Len(z)),
   sat     |-> next_rom_index_and_pc(z[2], SubSeq(z, 3, Len(z)), pc_cur).sat]

\* SquareCircuit::synthesize: y = x^2 + x + 5
SquareCircuit_synthesize(pc_cur, z) ==
  [pc_next |-> next_rom_index_and_pc(z[2], SubSeq(z, 3, Len(z)), pc_cur).pc_next,
   z_next  |-> <<Mod(z[1] * z[1] + z[1] + 5),
                 next_rom_index_and_pc(z[2], SubSeq(z, 3, Len(z)), pc_cur).rom_index_next>>
               \o SubSeq(z, 3, Len(z)),
   sat     |-> next_rom_index_and_pc(z[2], SubSeq(z, 3, Len(z)), pc_cur).sat]

\* TestROM::primary_circuit
primary_circuit(circuit_index, pc_cur, z) ==
  IF circuit_index = OPCODE_0 THEN CubicCircuit_synthesize(pc_cur, z)
  ELSE SquareCircuit_synthesize(pc_cur, z)

Roms == UNION {[1 .. n -> {OPCODE_0, OPCODE_1}] : n \in 1 .. MaxRom}

\* RecursiveSNARK::new and the first prove_step of the loop: z0 = (x0, 0, rom), the circuit of
\* rom[0] runs on the program counter the prover starts with
RomNew(rom, x0, pc0) ==
  /\ result.op = "none"
  /\ \E out \in {primary_circuit(rom[1], pc0, <<x0, 0>> \o rom)} :
       result' = [op |-> "rom", rom |-> rom, steps |-> 1, pc_in |-> pc0,
                  program_counter |-> out.pc_next, zi_primary |-> out.z_next,
                  verified |-> out.sat]
  /\ UNCHANGED <<key, wire, proverVars>>

\* the next pass of the loop: prove_step with the circuit of the next opcode, then verify
RomProveStep ==
  /\ result.op = "rom"
  /\ result.verified
  /\ result.steps < Len(result.rom)
  /\ \E out \in {primary_circuit(result.rom[result.steps + 1], result.program_counter,
                                 result.zi_primary)} :
       result' = [op |-> "rom", rom |-> result.rom, steps |-> result.steps + 1,
                  pc_in |-> result.program_counter,
                  program_counter |-> out.pc_next, zi_primary |-> out.z_next,
                  verified |-> out.sat]
  /\ UNCHANGED <<key, wire, proverVars>>

NextRom ==
  \/ \E rom \in Roms, x0 \in Fp, pc0 \in {OPCODE_0, OPCODE_1} : RomNew(rom, x0, pc0)
  \/ RomProveStep

SpecRom == Init /\ [][NextRom]_vars

\* ------------------------------------------------------------------ properties
\* the step circuit's function applied n times to z
RECURSIVE apply_steps(_, _)
apply_steps(n, z) ==
  IF n = 0 THEN z ELSE StepCircuit_synthesize(the_circuit, apply_steps(n - 1, z))

\* the snark is one that new and prove_step alone produced
Proved == made /\ honest

\* C1: after a successful new and N >= 1 prove_step calls that returned Ok, verify(pp, N, z0)
\* returns Ok(zi) with zi the step function applied exactly N times to z0
C1_VerifyAfterNSteps ==
  (Proved /\ okSteps >= 1) =>
    verify(snark, pp, digest_cell, okSteps, snark.z0_primary).res
      = Ok(apply_steps(okSteps, snark.z0_primary))

\* C1 witness: verify has just returned Ok with the three-fold application after three steps
C1_Witness ==
  /\ Proved /\ okSteps = 3 /\ snark.z0_primary = <<2>>
  /\ last = Call("verify", Ok(apply_steps(3, <<2>>)))

\* C2: in every state new and successful prove_step calls reach, the running primary pair
\* satisfies the relaxed relation, the latest pair the exact relation, and the running
\* CycleFold pair the relaxed relation
C2_PairsSatisfy ==
  Proved =>
    /\ is_sat_relaxed(r1cs_shape_primary, pp.ck_primary,
                      snark.r_U_primary, snark.r_W_primary) = "Ok"
    /\ is_sat(r1cs_shape_primary, pp.ck_primary, snark.l_u_primary, snark.l_w_primary) = "Ok"
    /\ is_sat_relaxed(r1cs_shape_cyclefold, pp.ck_cyclefold,
                      snark.r_U_cyclefold, snark.r_W_cyclefold) = "Ok"

\* C2 witness: two folds were made and both running pairs left their default values
C2_Witness ==
  /\ Proved /\ okSteps = 3 /\ last.op = "prove_step" /\ last.res.kind = "Ok"
  /\ snark.r_U_primary # RelaxedR1CSInstance_default(pp.ck_primary, r1cs_shape_primary)
  /\ snark.r_W_primary # RelaxedR1CSWitness_default(r1cs_shape_primary)
  /\ snark.r_U_cyclefold # RelaxedR1CSInstance_default(pp.ck_cyclefold, r1cs_shape_cyclefold)
  /\ snark.r_W_cyclefold # RelaxedR1CSWitness_default(r1cs_shape_cyclefold)

\* one of the three satisfiability checks of verify fails on self
SatCheckFails(self) ==
  \/ is_sat_relaxed(r1cs_shape_primary, pp.ck_primary, self.r_U_primary, self.r_W_primary) # "Ok"
  \/ is_sat(r1cs_shape_primary, pp.ck_primary, self.l_u_primary, self.l_w_primary) # "Ok"
  \/ is_sat_relaxed(r1cs_shape_cyclefold, pp.ck_cyclefold,
                    self.r_U_cyclefold, self.r_W_cyclefold) # "Ok"

\* one of the two recomputed hashes differs from the entry of l_u_primary.X it is compared to
HashCheckFails(self, num_steps, z0) ==
  \/ /\ Len(self.l_u_primary.X) >= 1
     /\ scalar_as_base(RO(pp.ro_consts_primary,
                          <<DigestComputer_digest(pp), Mod(num_steps)>> \o z0 \o self.zi_primary
                            \o absorb_primary_relaxed_r1cs(self.r_U_primary)))
          # self.l_u_primary.X[1]
  \/ /\ Len(self.l_u_primary.X) >= 2
     /\ scalar_as_base(RO(pp.ro_consts_cyclefold,
                          <<DigestComputer_digest(pp), Mod(num_steps)>>
                            \o absorb_in_ro(self.r_U_cyclefold)))
          # self.l_u_primary.X[2]

\* C3: verify returns Err whenever num_steps is 0, or differs from the counter i, or z0 differs
\* from z0_primary, or r_U_primary.X has not exactly 2 entries, or a recomputed hash differs
\* from its entry of l_u_primary.X, or one of the three satisfiability checks fails
C3_VerifyRejects ==
  made =>
    \A num_steps \in NumStepsInputs, z0 \in Z0Inputs :
      ( \/ num_steps = 0
        \/ snark.i # num_steps
        \/ snark.z0_primary # z0
        \/ Len(snark.r_U_primary.X) # NUM_IO_PRIMARY
        \/ HashCheckFails(snark, num_steps, z0)
        \/ SatCheckFails(snark) )
      => verify(snark, pp, digest_cell, num_steps, z0).res.kind = "Err"

\* C4: every failure verify returns is the one error value ProofVerifyError
C4_VerifyErrorIsProofVerifyError ==
  (last.op = "verify" /\ last.res.kind = "Err") => last.res.err = "ProofVerifyError"

\* C5: new returns Err(InvalidInitialInputLength) exactly when the length of z0 differs from
\* F_arity_primary, and it returns it before the digest is asked for or anything is built
C5_NewChecksLengthFirst ==
  \A z0 \in Z0Inputs, fail \in NewFails :
    \A n \in {new(pp, digest_cell, the_circuit, z0, fail)} :
      /\ (n.res = Err("InvalidInitialInputLength")) <=> (Len(z0) # pp.F_arity_primary)
      /\ (Len(z0) # pp.F_arity_primary) => (n.cell = digest_cell /\ n.self = NoSNARK)

\* C5 witness: new has just refused a z0 of the wrong length and the memo cell is still empty
C5_Witness ==
  /\ last = Call("new", Err("InvalidInitialInputLength"))
  /\ ~digest_cell.set
  /\ ~made

\* C6: the counter i is 0 after a successful new, every prove_step that returns Ok adds 1 to
\* it, and nothing else changes it: i is the number of successful prove_step calls since new
C6_CounterCountsSteps ==
  [][ /\ (last'.op = "new" /\ last'.res.kind = "Ok") => snark'.i = 0
      /\ (made /\ last'.op = "prove_step" /\ last'.res.kind = "Ok") => snark'.i = snark.i + 1
      /\ (made /\ ~(last'.op = "new" /\ last'.res.kind = "Ok")
               /\ ~(last'.op = "prove_step" /\ last'.res.kind = "Ok")) => snark'.i = snark.i
      /\ made' => snark'.i = okSteps' ]_vars

\* C6 witness: the first prove_step has just returned Ok and the counter is 1
C6_Witness ==
  made /\ last = Call("prove_step", Ok(<<>>)) /\ okSteps = 1 /\ snark.i = 1

\* C7: a prove_step that returns Err leaves every field of the RecursiveSNARK as it was
C7_NoPartialMutation ==
  [][(last'.op = "prove_step" /\ last'.res.kind = "Err") => snark' = snark]_vars

\* C7 witness: a prove_step on a folded snark has just failed in the step synthesis
C7_Witness ==
  Proved /\ snark.i = 2 /\ last = Call("prove_step", Err("SynthesisError"))

\* C8: verify changes no field of the RecursiveSNARK whatever it returns, and the same call
\* made again returns the same result
C8_VerifyReadOnly ==
  made =>
    \A num_steps \in NumStepsInputs, z0 \in Z0Inputs :
      \A v \in {verify(snark, pp, digest_cell, num_steps, z0)} :
        /\ v.self = snark
        /\ verify(v.self, pp, v.cell, num_steps, z0).res = v.res

\* C8 witness: a verify that returned Ok was the first call to fill the memo cell
C8_Witness ==
  /\ made /\ last.op = "verify" /\ last.res.kind = "Ok"
  /\ snark.i = 1 /\ digest_cell.set

\* C9: once digest() has returned d the memo cell stays set to d, and every later digest()
\* returns d: no later digest, new, prove_step or verify resets or overwrites the cell
C9_DigestMemoStable ==
  [][ digest_cell.set =>
        /\ digest_cell' = digest_cell
        /\ last'.op = "digest" => last'.res = Ok(<<digest_cell.val>>) ]_vars

\* C9 witness: digest() has returned the memoized value after proving steps used the cell
C9_Witness ==
  /\ last = Call("digest", Ok(<<digest_cell.val>>))
  /\ digest_cell.set /\ made /\ snark.i = 2

\* C10: whatever the interleaving of the sessions' digest() calls, every call returns the
\* same value, and the cell holds exactly that value
C10_ConcurrentDigestAgree ==
  \A t \in Threads :
    ret[t].set =>
      /\ digest_cell.set
      /\ ret[t].val = digest_cell.val
      /\ \A u \in Threads : ret[u].set => ret[u].val = ret[t].val

\* C10 witness: two sessions raced on the empty cell; one initialized it, the other waited,
\* and a third read the filled cell
C10_Witness ==
  \E t, u, w \in Threads :
    /\ ret[t].via = "init" /\ ret[u].via = "waited" /\ ret[w].via = "get"
    /\ digest_cell.set

\* the bytes before the section data: magic number, type tag, section count, section type
\* and section length
HeaderLen == Len(to_bytes(<<>>))

\* wire is to_bytes(key) with exactly one byte of the header replaced
OneHeaderByteChanged ==
  /\ Len(wire) = Len(to_bytes(key))
  /\ \E pos \in 1 .. HeaderLen :
       /\ wire[pos] # to_bytes(key)[pos]
       /\ \A q \in 1 .. Len(wire) : q # pos => wire[q] = to_bytes(key)[q]

\* C11: for every commitment key ck, from_bytes(ck.to_bytes()) is Ok with a key equal to ck
C11_BytesRoundTrip ==
  (result.op = "from_bytes" /\ result.edits = 0) => result.res = Ok(key)

\* C11 witness: the four generators setup made for a requested length of 3 came back
C11_Witness ==
  /\ result.op = "from_bytes" /\ result.edits = 0
  /\ result.res.kind = "Ok" /\ Len(result.res.val) = 4 /\ key = setup(0, 3)

\* C12: replacing any single byte of the header of ck.to_bytes() by a different value makes
\* from_bytes return an error, never Ok
C12_HeaderCorruptionFails ==
  (result.op = "from_bytes" /\ OneHeaderByteChanged) => result.res.kind = "Err"

\* the four header fields of wire, as far as wire holds them
MagicWrong == Len(wire) >= 4 /\ SubSeq(wire, 1, 4) # MAGIC_NUMBER
MagicRight == Len(wire) >= 4 /\ SubSeq(wire, 1, 4) = MAGIC_NUMBER
TypeWrong == Len(wire) >= 5 /\ wire[5] # SerdeByteTypes_CommitmentKey
TypeRight == Len(wire) >= 5 /\ wire[5] = SerdeByteTypes_CommitmentKey
CountWrong == Len(wire) >= 6 /\ wire[6] # CK_SECTIONS
CountRight == Len(wire) >= 6 /\ wire[6] = CK_SECTIONS
SectionTypeWrong == Len(wire) >= 7 /\ wire[7] # CK_SECTION_TYPE
SectionTypeRight == Len(wire) >= 7 /\ wire[7] = CK_SECTION_TYPE

HeaderErrors ==
  {"InvalidMagicNumber", "InvalidSerdeType", "InvalidSectionCount", "InvalidSectionType"}

\* C13: from_bytes checks the magic number, the type tag, the section count and the section
\* type in this order; the first check that fails decides the result whatever the later
\* bytes (the section length among them) hold, each with its own error
C13_HeaderChecksInOrder ==
  result.op = "from_bytes" =>
    /\ MagicWrong => result.res = Err("InvalidMagicNumber")
    /\ (MagicRight /\ TypeWrong) => result.res = Err("InvalidSerdeType")
    /\ (MagicRight /\ TypeRight /\ CountWrong) => result.res = Err("InvalidSectionCount")
    /\ (MagicRight /\ TypeRight /\ CountRight /\ SectionTypeWrong)
         => result.res = Err("InvalidSectionType")
    /\ (MagicRight /\ TypeRight /\ CountRight /\ SectionTypeRight)
         => (result.res.kind = "Ok" \/ result.res.err \notin HeaderErrors)

\* C13 witness: magic number and type tag are both wrong and the magic number was reported
C13_Witness ==
  /\ result.op = "from_bytes" /\ MagicWrong /\ TypeWrong
  /\ result.res = Err("InvalidMagicNumber")

\* the header of wire is complete and passes all four checks
HeaderValid ==
  Len(wire) >= HeaderLen /\ MagicRight /\ TypeRight /\ CountRight /\ SectionTypeRight

\* the section length the header of wire declares is more than the bytes that follow it
SectionTruncated ==
  \/ wire[HeaderLen] >= 128
  \/ from_le_bytes(SubSeq(wire, HeaderLen - 3, HeaderLen)) > Len(wire) - HeaderLen

\* the declared section length is no multiple of the width of an encoded generator
SectionLengthUneven ==
  /\ wire[HeaderLen] < 128
  /\ from_le_bytes(SubSeq(wire, HeaderLen - 3, HeaderLen)) % Len(to_raw_bytes(identity)) # 0

\* C14: with a valid header, a section that ends before its declared length and a declared
\* length that is no multiple of the element width each make from_bytes return an error
\* value, the two errors differing from each other and from the header errors
C14_SectionLengthErrors ==
  result.op = "from_bytes" =>
    /\ (MagicRight /\ TypeRight /\ CountRight /\ SectionTypeRight /\ Len(wire) < HeaderLen)
         => result.res = Err("IoError")
    /\ (HeaderValid /\ SectionTruncated) => result.res = Err("IoError")
    /\ (HeaderValid /\ ~SectionTruncated /\ SectionLengthUneven)
         => result.res = Err("G1DecodeError")
    /\ {"IoError", "G1DecodeError"} \cap HeaderErrors = {}

\* C14 witness: a declared length of 3 with four bytes of section data was refused
C14_Witness ==
  /\ result.op = "from_bytes" /\ HeaderValid /\ ~SectionTruncated /\ SectionLengthUneven
  /\ Len(wire) = Len(to_bytes(key))
  /\ result.res = Err("G1DecodeError")

\* n is the smallest power of two that is at least m
SmallestPowerOfTwo(n, m) ==
  /\ \E e \in 0 .. n : n = 2 ^ e
  /\ n >= m
  /\ \A k \in 1 .. n - 1 : (\E e \in 0 .. k : k = 2 ^ e) => k < m

C16_CommitLengthPrecondition ==
  result.op = "commit" =>
    IF Len(result.v) > Len(key)
    THEN result.res = "abort"
    ELSE result.res = SumSeq([k \in 1 .. Len(result.v) |-> result.v[k] * key[k]])

\* C16 witness: two scalars were committed against a key of four generators
C16_Witness ==
  /\ result.op = "commit" /\ Len(result.v) = 2 /\ Len(key) = 4
  /\ result.v[1] # 0 /\ result.v[2] # 0

\* C17: the sum of commit(ck, a) and commit(ck, b) is commit(ck, a + b), and commit(ck, a) * r
\* is commit(ck, r*a): a commitment built with + and * commits to the vector built alongside
C17_CommitHomomorphic ==
  result.op \in {"add", "mul"} => result.res = commit(key, result.v)

\* C17 witness: two vectors of two nonzero scalars each were committed and added
C17_Witness ==
  /\ result.op = "add" /\ Len(result.v) = 2 /\ result.v[1] # 0 /\ result.v[2] # 0
  /\ result.res # 0

ValidEncoding(cc) == \E c \in Fp : compress(c) = cc

\* C19: decompress returns Err(DecompressionError) for every encoding that is no curve point
\* and Ok(c) with compress(c) equal to its input otherwise; reinterpret_commitments_as_ck and
\* prove_step hand a failed decompress to their caller as Err(DecompressionError)
C19_DecompressErrorIsValue ==
  /\ result.op = "decompress" =>
       IF ValidEncoding(result.arg)
       THEN result.res.ok /\ compress(result.res.comm) = result.arg
       ELSE result.res = [ok |-> FALSE, err |-> "DecompressionError"]
  /\ result.op = "reinterpret" =>
       IF \A k \in 1 .. Len(result.arg) : ValidEncoding(result.arg[k])
       THEN /\ result.res.kind = "Ok"
            /\ Len(result.res.val) = Len(result.arg)
            /\ \A k \in 1 .. Len(result.arg) : compress(result.res.val[k]) = result.arg[k]
       ELSE result.res = Err("DecompressionError")
  /\ (made /\ honest /\ snark.i \in 1 .. MaxSteps - 1) =>
       \A fail \in DecompressFails :
         prove_step(snark, pp, digest_cell, the_circuit, fail).res = Err("DecompressionError")

\* C19 witness: a valid encoding followed by one that is no curve point was refused
C19_Witness ==
  /\ result.op = "reinterpret" /\ Len(result.arg) = 2
  /\ ValidEncoding(result.arg[1]) /\ ~ValidEncoding(result.arg[2])
  /\ result.res = Err("DecompressionError")

\* C20: convert_to_halo2_field(convert_to_acir_field(f)) = f for every element f of the
\* proving field and convert_to_acir_field(convert_to_halo2_field(g)) = g for every element
\* g of the IR field; each conversion maps the integer k to the integer k and none aborts
C20_FieldRoundTrip ==
  /\ result.op = "to_acir" => result.res = result.f
  /\ result.op = "to_halo2" => result.res = Ok(result.f)
  /\ result.op = "back_to_halo2" => result.res = Ok(result.f)
  /\ result.op = "back_to_acir" => result.res = result.f

\* C20 witness: modulus - 1, whose two bytes differ, went to the IR field and came back
C20_Witness ==
  /\ result.op = "back_to_halo2" /\ result.f = HALO2_MODULUS - 1
  /\ result.res = Ok(HALO2_MODULUS - 1)
  /\ acir_to_be_bytes(result.f) # reverse(acir_to_be_bytes(result.f))

\* C21: the step-circuit arity of a NoirProgram is its number of public parameters plus one,
\* and synthesize aborts, with no input bound and no constraint emitted, whenever the number
\* of return values is not the number of public parameters plus one
C21_ArityAndReturnValues ==
  /\ result.op = "program" =>
       NoirProgram_StepCircuit_arity(result.program)
         = Len(result.program.public_parameters) + 1
  /\ (/\ result.op = "synthesize"
      /\ Len(result.program.return_values) # Len(result.program.public_parameters) + 1) =>
       /\ result.out.res.kind = "Panic"
       /\ result.out.cs = EmptyCS

\* C21 witness: a program with two public parameters and no return value was refused
C21_Witness ==
  /\ result.op = "synthesize"
  /\ Len(result.program.return_values) = 0 /\ Len(result.program.public_parameters) = 2
  /\ result.out.res.kind = "Panic"

\* C22: a PublicParams that was serialized and deserialized compares equal to the original
\* and returns the same digest(), whether or not digest() had been called on the original
C22_ParamsRoundTrip ==
  result.op = "pp_round_trip" => (result.eq /\ result.digest_back = result.digest)

\* the callees of prove_step that derive an instance/witness pair, one per sub-system
InstanceFails == {"cyclefold_E_instance", "cyclefold_W_instance", "primary_instance"}

\* C23: when prove_step fails because an instance/witness pair could not be derived, the
\* error tells which sub-system failed: the CycleFold instance for E, the CycleFold instance
\* for W and the primary circuit give three different errors
C23_InstanceErrorsDistinct ==
  (made /\ honest /\ snark.i \in 1 .. MaxSteps - 1) =>
    \A f \in InstanceFails, g \in InstanceFails :
      /\ prove_step(snark, pp, digest_cell, the_circuit, f).res.kind = "Err"
      /\ f # g => prove_step(snark, pp, digest_cell, the_circuit, f).res
                    # prove_step(snark, pp, digest_cell, the_circuit, g).res

\* C24: a ROM step whose constraints hold had rom[rom_index] = pc, outputs rom_index + 1,
\* copies the rom entries of z and proposes rom[rom_index + 1] as next program counter, or
\* -1 when there is none; so the program counter is -1 after the last opcode of the ROM was
\* proved and is not -1 after any earlier step
C24_RomProgramCounter ==
  (result.op = "rom" /\ result.verified) =>
    /\ result.rom[result.steps] = result.pc_in
    /\ result.zi_primary[2] = result.steps
    /\ SubSeq(result.zi_primary, 3, Len(result.zi_primary)) = result.rom
    /\ result.program_counter
         = IF result.steps < Len(result.rom) THEN result.rom[result.steps + 1] ELSE Mod(0 - 1)
    /\ result.steps = Len(result.rom) <=> result.program_counter = Mod(0 - 1)

\* C24 witness: the three opcodes of a ROM with both circuits were proved in order
C24_Witness ==
  /\ result.op = "rom" /\ result.verified
  /\ Len(result.rom) = 3 /\ result.steps = 3
  /\ result.rom[1] # result.rom[2]
  /\ result.program_counter = Mod(0 - 1)

\* the AssertZero opcodes among the first k - 1 opcodes
GatesBefore(opcodes, k) ==
  Cardinality({i \in 1 .. k - 1 : opcodes[i].kind = "AssertZero"})

\* synthesize got as far as the gate loop
ReachedGates ==
  /\ result.op = "synthesize"
  /\ Len(result.program.return_values) = Len(result.program.public_parameters) + 1

\* the constraint c is the one the claim describes for the gate
ConstraintOfGate(c, gate) ==
  /\ Len(c.A) = Len(gate.mul_terms) /\ Len(c.B) = Len(gate.mul_terms)
  /\ \A k \in 1 .. Len(gate.mul_terms) :
       /\ c.A[k] = <<gate.mul_terms[k][1], Var(gate.mul_terms[k][2])>>
       /\ c.B[k] = <<1, Var(gate.mul_terms[k][3])>>
  /\ Len(c.C) = Len(gate.linear_combinations) + (IF gate.q_c = 0 THEN 0 ELSE 1)
  /\ \A k \in 1 .. Len(gate.linear_combinations) :
       c.C[k] = <<gate.linear_combinations[k][1], Var(gate.linear_combinations[k][2])>>
  /\ gate.q_c # 0 => c.C[Len(c.C)] = <<FMod(0 - gate.q_c), ONE>>

\* C25: synthesize emits exactly one constraint per AssertZero opcode, in opcode order, and
\* none for another opcode; the constraint of a gate has A = sum of coeff*left, B = sum of
\* 1*right over the multiplication terms and C = sum of coeff*variable over the linear terms
\* minus q_c times the constant one, the constant left out when q_c = 0
C25_OneConstraintPerGate ==
  ReachedGates =>
    /\ Len(result.out.cs.constraints)
         = GatesBefore(result.program.opcodes, Len(result.program.opcodes) + 1)
    /\ \A k \in 1 .. Len(result.program.opcodes) :
         result.program.opcodes[k].kind = "AssertZero" =>
           ConstraintOfGate(
             result.out.cs.constraints[GatesBefore(result.program.opcodes, k) + 1],
             result.program.opcodes[k])

\* C25 witness: two gates around another opcode gave two constraints, the first with two
\* multiplication terms and a constant
C25_Witness ==
  /\ ReachedGates
  /\ Len(result.program.opcodes) = 3 /\ Len(result.out.cs.constraints) = 2
  /\ Len(result.out.cs.constraints[1].A) = 2
  /\ result.program.opcodes[1].q_c # 0

\* the value of a variable under an assignment of the witnesses
ValueOf(v, assignment) == IF v = ONE THEN 1 ELSE assignment[v.idx]

\* the value of a linear combination
RECURSIVE lc_eval(_, _)
lc_eval(lc, assignment) ==
  IF lc = <<>> THEN 0
  ELSE FMod(lc[1][1] * ValueOf(lc[1][2], assignment) + lc_eval(Tail(lc), assignment))

\* A * B = C under the assignment
ConstraintHolds(c, assignment) ==
  FMod(lc_eval(c.A, assignment) * lc_eval(c.B, assignment)) = lc_eval(c.C, assignment)

\* sum of coeff*a*b over the multiplication terms
RECURSIVE mul_eval(_, _)
mul_eval(mul_terms, assignment) ==
  IF mul_terms = <<>> THEN 0
  ELSE FMod(mul_terms[1][1] * FMod(assignment[mul_terms[1][2]] * assignment[mul_terms[1][3]])
            + mul_eval(Tail(mul_terms), assignment))

\* sum of coeff*x over the linear terms
RECURSIVE linear_eval(_, _)
linear_eval(linear_combinations, assignment) ==
  IF linear_combinations = <<>> THEN 0
  ELSE FMod(linear_combinations[1][1] * assignment[linear_combinations[1][2]]
            + linear_eval(Tail(linear_combinations), assignment))

\* the expression an AssertZero gate asserts to be zero
GateExpression(gate, assignment) ==
  FMod(mul_eval(gate.mul_terms, assignment)
       + linear_eval(gate.linear_combinations, assignment) + gate.q_c)

\* C29: for every AssertZero gate and every assignment, the constraint synthesize emits for
\* the gate holds if and only if the gate's expression is zero
C29_ConstraintIffGateZero ==
  result.op = "assign" =>
    \A k \in 1 .. Len(result.program.opcodes) :
      result.program.opcodes[k].kind = "AssertZero" =>
        (ConstraintHolds(
           result.out.cs.constraints[GatesBefore(result.program.opcodes, k) + 1],
           result.assignment)
         <=> GateExpression(result.program.opcodes[k], result.assignment) = 0)

\* a prove_step on a snark with i >= 1 returned Ok in this step
FoldingStep ==
  /\ made /\ snark.i >= 1
  /\ last'.op = "prove_step" /\ last'.res.kind = "Ok"
  /\ snark'.i = snark.i + 1

\* the primary fold of the step, from the state before it
StepPrimaryFold ==
  NIFS_prove(pp.ck_primary, pp.ro_consts_primary, digest(pp, digest_cell).val,
             r1cs_shape_primary, snark.r_U_primary, snark.r_W_primary,
             snark.l_u_primary, snark.l_w_primary)

\* the CycleFold instance for (r_U_primary.comm_E, comm_T) under the primary challenge
StepInstanceE ==
  CycleFoldCircuit_instance_and_witness(pp.ck_cyclefold, snark.r_U_primary.comm_E,
    decompress(StepPrimaryFold.nifs.comm_T).comm, StepPrimaryFold.r)

\* the CycleFold instance for (r_U_primary.comm_W, l_u_primary.comm_W), same challenge
StepInstanceW ==
  CycleFoldCircuit_instance_and_witness(pp.ck_cyclefold, snark.r_U_primary.comm_W,
    snark.l_u_primary.comm_W, StepPrimaryFold.r)

\* the E instance folded into the running CycleFold pair of the state before the step
StepFoldE ==
  NIFS_prove(pp.ck_cyclefold, pp.ro_consts_cyclefold,
             scalar_as_base(digest(pp, digest_cell).val), r1cs_shape_cyclefold,
             snark.r_U_cyclefold, snark.r_W_cyclefold, StepInstanceE.u, StepInstanceE.w)

\* the W instance folded into the result of the E fold
StepFoldW ==
  NIFS_prove(pp.ck_cyclefold, pp.ro_consts_cyclefold,
             scalar_as_base(digest(pp, digest_cell).val), r1cs_shape_cyclefold,
             StepFoldE.U, StepFoldE.W, StepInstanceW.u, StepInstanceW.w)

\* the inputs of the augmented circuit with the two claimed outputs written out
StepInputs ==
  [pp_digest |-> scalar_as_base(digest(pp, digest_cell).val),
   i         |-> Mod(snark.i),
   z0        |-> snark.z0_primary,
   zi        |-> snark.zi_primary,
   data_p    |-> FoldingData_new(snark.r_U_primary, snark.l_u_primary,
                                 decompress(StepPrimaryFold.nifs.comm_T).comm),
   data_c_E  |-> FoldingData_new(snark.r_U_cyclefold, StepInstanceE.u,
                                 decompress(StepFoldE.nifs.comm_T).comm),
   data_c_W  |-> FoldingData_new(StepFoldE.U, StepInstanceW.u,
                                 decompress(StepFoldW.nifs.comm_T).comm),
   E_new     |-> CommitmentAdd(snark.r_U_primary.comm_E,
                   CommitmentMul(decompress(StepPrimaryFold.nifs.comm_T).comm,
                                 StepPrimaryFold.r)),
   W_new     |-> CommitmentAdd(snark.r_U_primary.comm_W,
                   CommitmentMul(snark.l_u_primary.comm_W, StepPrimaryFold.r))]

\* C26: a folding prove_step derives two CycleFold instances under the primary challenge,
\* for (r_U.comm_E, comm_T) and for (r_U.comm_W, l_u.comm_W); the E instance is folded into
\* the running CycleFold pair of before the step, the W instance into the result of the E
\* fold, and the result of the W fold is the new running CycleFold pair; the augmented
\* circuit is given E_new = r_U.comm_E + r*comm_T and W_new = r_U.comm_W + r*l_u.comm_W
C26_TwoCycleFoldFolds ==
  [][FoldingStep =>
       \E fold_W \in {StepFoldW}, inputs \in {StepInputs} :
         /\ snark'.r_U_cyclefold = fold_W.U
         /\ snark'.r_W_cyclefold = fold_W.W
         /\ inputs.data_c_E.u.X[4] = StepPrimaryFold.r
         /\ inputs.data_c_W.u.X[4] = StepPrimaryFold.r
         /\ inputs.data_c_E.u.X[3] = inputs.E_new
         /\ inputs.data_c_W.u.X[3] = inputs.W_new
         /\ snark'.r_U_primary.comm_E = inputs.E_new
         /\ snark'.r_U_primary.comm_W = inputs.W_new
         /\ snark'.l_u_primary = AugmentedCircuit_synthesize(pp, inputs, the_circuit).u
    ]_vars

\* C26 witness: two folding steps were made and the running CycleFold pair is no longer
\* the default pair
C26_Witness ==
  /\ made /\ honest /\ snark.i = 3
  /\ last.op = "prove_step" /\ last.res.kind = "Ok"
  /\ snark.r_U_cyclefold # RelaxedR1CSInstance_default(pp.ck_cyclefold, r1cs_shape_cyclefold)
  /\ snark.r_U_cyclefold.u # 0

\* step circuits a caller can pass to prove_step
StepCircuits == {"SquareCircuit", "CubicCircuit"}

\* C27: the first prove_step after new (i = 0) folds and synthesizes nothing: whatever step
\* circuit is passed it returns Ok, sets i to 1 and leaves z0_primary, zi_primary, both
\* running pairs (still the default pairs), the latest pair and both buffers as they were;
\* no later prove_step changes z0_primary or a buffer either
C27_FirstStepOnlyCounts ==
  [][ /\ (made /\ honest /\ snark.i = 0) =>
           /\ \A c \in StepCircuits, fail \in ProveFailSet :
                prove_step(snark, pp, digest_cell, c, fail)
                  = [res |-> Ok(<<>>), self |-> [snark EXCEPT !.i = 1], cell |-> digest_cell]
           /\ snark.r_U_primary = RelaxedR1CSInstance_default(pp.ck_primary, r1cs_shape_primary)
           /\ snark.r_W_primary = RelaxedR1CSWitness_default(r1cs_shape_primary)
           /\ snark.r_U_cyclefold
                = RelaxedR1CSInstance_default(pp.ck_cyclefold, r1cs_shape_cyclefold)
           /\ snark.r_W_cyclefold = RelaxedR1CSWitness_default(r1cs_shape_cyclefold)
      /\ (made /\ snark.i = 0 /\ last'.op = "prove_step") =>
           /\ last'.res = Ok(<<>>)
           /\ snark' = [snark EXCEPT !.i = 1]
      /\ (made /\ last'.op = "prove_step") =>
           /\ snark'.z0_primary = snark.z0_primary
           /\ snark'.buffer_primary = snark.buffer_primary
           /\ snark'.buffer_cyclefold = snark.buffer_cyclefold ]_vars

\* C27 witness: after the first prove_step, which was handed a failing callee, two folding
\* steps were made and the buffers are still the ones new allocated
C27_Witness ==
  /\ made /\ honest /\ snark.i = 3 /\ okSteps = 3
  /\ last = Call("prove_step", Ok(<<>>))
  /\ snark.zi_primary # snark.z0_primary
  /\ snark.buffer_primary = ResourceBuffer_new(r1cs_shape_primary)
  /\ snark.buffer_cyclefold = ResourceBuffer_new(r1cs_shape_cyclefold)

\* C28: verify returns a Result for every RecursiveSNARK value, one read back from bytes
\* included, and never aborts; with r_U_primary.X of 2 entries and l_u_primary.X of fewer
\* than 2 entries it returns Err(ProofVerifyError)
C28_VerifyNeverAborts ==
  (made /\ last.op = "verify") =>
    /\ last.res.kind \in {"Ok", "Err"}
    /\ (Len(snark.r_U_primary.X) = NUM_IO_PRIMARY /\ Len(snark.l_u_primary.X) < 2)
         => last.res = Err("ProofVerifyError")

\* C30: decoding is canonical: whenever from_bytes(b) returns Ok(ck), ck.to_bytes() is b, so
\* bytes with data left after the declared section are not accepted as a shorter key
C30_DecodingCanonical ==
  (result.op = "from_bytes" /\ result.res.kind = "Ok") => to_bytes(result.res.val) = wire

====
